---- MODULE Spec2Model ----
(***************************************************************************)
(* Model of the Zosung IR blaster device (drivers/tuya_ir_blaster):        *)
(* the chunked transfer sessions kept in irStore, the handlers of the six  *)
(* protocol commands, the learn and send entry points.  Every handler is   *)
(* an async JavaScript function: it runs atomically up to each await, and  *)
(* the rest of it is a suspended task that is resumed later with the       *)
(* outcome (resolved or rejected) of the awaited call.                     *)
(***************************************************************************)
EXTENDS Integers, Sequences, FiniteSets, Bags, TLC

\* ------------------------------------------------------------ constants
MIN_LEARN_LENGTH == 90
LONG_LEARN_LENGTH == 300
CHUNK_SIZE == 50
RECV_MAXLEN == 56
SEQ_MODULUS == 65536
CRC_MODULUS == 256
CMD_LEARN == 4
CMD_SEND == 2
PREFIX_MAX == 56

APPLY_WRITES == 7

\* ------------------------------------------------------------ bounds
\* sequence numbers the peer uses, and the cap of currentSeq, are 0..MaxSeq
MaxSeq == 1
\* handlers suspended at an await at the same time
MaxTasks == 2
\* longest payload and largest chunk limit of the round-trip specification
MaxPayload == 3

\* the length of the long IR codes that are compared, in bytes
LongCode == 2001

Seqs == 0..MaxSeq

VARIABLES
    irStore,              \* this.irStore: seq -> entry
    currentSeq,           \* this.currentSeq
    lastLearnSeqHandled,  \* this._lastLearnSeqHandled
    hasCluster,           \* _getCluster() finds the transmit cluster
    hasControl,           \* _getControlCluster() finds the control cluster
    hasTrigger,           \* this.irLearnedTrigger is set
    captureMode,          \* the peripheral's capture mode (last study command delivered)
    tasks,                \* bag of handlers suspended at an await
    reportRuns,           \* seq -> handler runs that reported the payload of the session open at seq
    last,                 \* the step just taken: handler, its input, its outcome, what it emitted
    payload,              \* round trip: the payload the peer splits
    chunkLimit,           \* round trip: the peer's chunk limit
    fed,                  \* round trip: bytes of the payload the peer has delivered
    acked,                \* sequences of Send sessions the peer has acknowledged (Code01)
    pendingSettings,      \* sensor -> this.pendingSettings, the queue of settings to write
    settingWriteInProgress, \* vibration sensor: this.settingWriteInProgress
    writing,              \* sensor -> writes of a queued setting not settled yet
    issued,               \* sensor -> key -> the value of the last write issued (0: none)
    newSettings,          \* sensor -> key -> the value of the last settings change (0: none)
    pendingSettingsApply, \* soil sensor: this.pendingSettingsApply
    lastWakeHandledAt,    \* soil sensor: this.lastWakeHandledAt
    soilSettings,         \* soil sensor: the value the settings hold
    soilDevice,           \* soil sensor: write -> the value the device received last (0: none)
    awake,                \* soil sensor: bag of onDeviceAwake runs suspended at an await
    now,                  \* Date.now()
    lastPressTime,        \* knob: this.lastPressTime
    singlePressTimeout,   \* knob: this.singlePressTimeout, as the time it is due at
    codes                 \* compare_ir_codes: args.code_a and args.code_b

vars == <<irStore, currentSeq, lastLearnSeqHandled,
          hasCluster, hasControl, hasTrigger, captureMode, tasks, reportRuns, last,
          payload, chunkLimit, fed, acked,
          pendingSettings, settingWriteInProgress, writing, issued, newSettings,
          pendingSettingsApply, lastWakeHandledAt, soilSettings, soilDevice, awake,
          now, lastPressTime, singlePressTimeout, codes>>

\* ------------------------------------------------------------ helpers
Min(a, b) == IF a <= b THEN a ELSE b

Max(a, b) == IF a >= b THEN a ELSE b

RECURSIVE SumSeq(_)
SumSeq(s) == IF s = <<>> THEN 0 ELSE s[1] + SumSeq(Tail(s))

\* Buffer.alloc(n): n zero bytes
BufferAlloc(n) == [i \in 1..n |-> 0]

\* the sum of the bytes, not reduced
calcCrcUnreduced(buffer) == SumSeq(buffer)

\* calcCrc(buffer): sum of the bytes modulo 0x100
calcCrc(buffer) == SumSeq(buffer) % CRC_MODULUS

\* calcStringCrc(str): sum of the UTF-16 code units modulo 0x100
calcStringCrc(str) == SumSeq(str) % CRC_MODULUS

\* calcArrayCrc(values) of the driver library: the same sum over a Buffer
calcArrayCrc(values) == SumSeq(values) % CRC_MODULUS

\* Buffer.from(string): the UTF-8 bytes of a string given as its code units
\* (code units below 0x800; surrogates do not occur in the envelope)
RECURSIVE BufferFromString(_)
BufferFromString(str) ==
    IF str = <<>> THEN <<>>
    ELSE LET c == str[1] IN
         (IF c < 128 THEN <<c>>
          ELSE IF c < 2048 THEN <<192 + (c \div 64), 128 + (c % 64)>>
          ELSE <<224 + (c \div 4096), 128 + ((c \div 64) % 64), 128 + (c % 64)>>)
         \o BufferFromString(Tail(str))

\* substring with the character before end left out
SubstringShort(str, start, end) ==
    LET s == IF start <= Len(str) THEN start ELSE Len(str)
        e == IF end - 1 <= Len(str) THEN end - 1 ELSE Len(str)
    IN  IF s >= e THEN <<>> ELSE SubSeq(str, s + 1, e)

\* String.prototype.substring(start, end) for 0 <= start <= end, 0-based, clamped
Substring(str, start, end) ==
    LET s == Min(start, Len(str))
        e == Min(end, Len(str))
    IN  IF s >= e THEN <<>> ELSE SubSeq(str, s + 1, e)

\* buf.toString('base64'): the base64 digits 0..63 of the bytes, 64 for the '=' pad
Base64(buf) ==
    LET n == Len(buf)
        B(i) == IF i <= n THEN buf[i] ELSE 0
        Digit(j) ==
            LET g == (j - 1) \div 4
                k == (j - 1) % 4
                b1 == B(3 * g + 1)
                b2 == B(3 * g + 2)
                b3 == B(3 * g + 3)
            IN  CASE k = 0 -> b1 \div 4
                  [] k = 1 -> (b1 % 4) * 16 + (b2 \div 16)
                  [] k = 2 -> IF 3 * g + 2 > n THEN 64 ELSE (b2 % 16) * 4 + (b3 \div 64)
                  [] OTHER -> IF 3 * g + 3 > n THEN 64 ELSE b3 % 64
    IN  [j \in 1..(4 * ((n + 2) \div 3)) |-> Digit(j)]

\* JSON.stringify({key_num: 1, delay: 300, key1: {num: 1, freq: 38000, type: 1,
\* key_code: code}}) as code units; code holds no character that JSON escapes
EnvelopePrefix ==
    <<123, 34, 107, 101, 121, 95, 110, 117, 109, 34, 58, 49, 44, 34, 100, 101, 108,
      97, 121, 34, 58, 51, 48, 48, 44, 34, 107, 101, 121, 49, 34, 58, 123, 34, 110,
      117, 109, 34, 58, 49, 44, 34, 102, 114, 101, 113, 34, 58, 51, 56, 48, 48, 48,
      44, 34, 116, 121, 112, 101, 34, 58, 49, 44, 34, 107, 101, 121, 95, 99, 111,
      100, 101, 34, 58, 34>>

EnvelopeSuffix == <<34, 125, 125>>

Envelope(code) == EnvelopePrefix \o code \o EnvelopeSuffix

\* irStore.set / irStore.delete
StoreSet(store, seq, entry) == (seq :> entry) @@ store

\* with the whole store cleared
StoreDeleteAll(store, seq) == <<>>

StoreDelete(store, seq) == [k \in (DOMAIN store) \ {seq} |-> store[k]]

\* entries of the learn direction carry buf/position/skipSave, those of the send
\* direction carry data
IsRecv(entry) == "buf" \in DOMAIN entry

IsSend(entry) == "data" \in DOMAIN entry

\* with no chunk ever taken for length-prefixed
StripLengthPrefixNever(msgpart) == msgpart

\* the optional length prefix of an inbound chunk: dropped when the first byte is
\* the length of the rest and at most 0x38
StripLengthPrefix(msgpart) ==
    IF Len(msgpart) > 1 /\ msgpart[1] = Len(msgpart) - 1 /\ msgpart[1] <= PREFIX_MAX
    THEN Tail(msgpart)
    ELSE msgpart

\* source.copy(target, targetStart, 0, n)
BufferCopy(source, target, targetStart, n) ==
    [i \in 1..Len(target) |->
        IF i > targetStart /\ i <= targetStart + n THEN source[i - targetStart] ELSE target[i]]

\* the copy without the truncation at the buffer's end
WriteChunkUnchecked(entry, msgData) ==
    [entry EXCEPT !.buf = BufferCopy(msgData, entry.buf, entry.position, Len(msgData)),
                  !.position = entry.position + Len(msgData)]

\* with a chunk that does not fit dropped whole
WriteChunkDropping(entry, msgData) ==
    IF entry.position + Len(msgData) <= Len(entry.buf)
    THEN [entry EXCEPT !.buf = BufferCopy(msgData, entry.buf, entry.position, Len(msgData)),
                       !.position = entry.position + Len(msgData)]
    ELSE entry

\* the copy of _onCode03 / _onCode03Bound into the entry, truncated at the buffer's end
WriteChunk(entry, msgData) ==
    IF entry.position + Len(msgData) <= Len(entry.buf)
    THEN [entry EXCEPT !.buf = BufferCopy(msgData, entry.buf, entry.position, Len(msgData)),
                       !.position = entry.position + Len(msgData)]
    ELSE LET copyLen == Len(entry.buf) - entry.position
         IN  [entry EXCEPT !.buf = BufferCopy(msgData, entry.buf, entry.position, copyLen),
                           !.position = entry.position + copyLen]

\* ------------------------------------------------------------ messages
Code00(seq, length, cmd) == [t |-> "Code00", seq |-> seq, length |-> length, cmd |-> cmd]

Code01(seq, length, cmd) == [t |-> "Code01", seq |-> seq, length |-> length, cmd |-> cmd]

Code02(seq, position, maxlen) ==
    [t |-> "Code02", seq |-> seq, position |-> position, maxlen |-> maxlen]

Code03(seq, position, msgpart, msgpartcrc) ==
    [t |-> "Code03", seq |-> seq, position |-> position, msgpart |-> msgpart,
     msgpartcrc |-> msgpartcrc]

Code04(seq) == [t |-> "Code04", seq |-> seq]

Code05(seq) == [t |-> "Code05", seq |-> seq]

Study(v) == [t |-> "study", v |-> v]

SetSettings(code) == [t |-> "setSettings", code |-> code]

Trigger(code) == [t |-> "trigger", code |-> code]


NoSeq == -1

NoCode == <<-1>>

\* a step of a handler: its outcome and the messages it sent; arg is the requested
\* maximum of a chunk request, the declared checksum of a chunk (both are logged),
\* 0 for the other handlers
StepArg(op, seq, arg, res, out) ==
    [op |-> op, seq |-> seq, arg |-> arg, res |-> res, out |-> out]

Step(op, seq, res, out) == StepArg(op, seq, 0, res, out)

Task(op, pc, seq, code) == [op |-> op, pc |-> pc, seq |-> seq, code |-> code]

CanSuspend == BagCardinality(tasks) < MaxTasks

Spawn(task) == tasks' = tasks (+) SetToBag({task})

\* the suspended handler `old` runs on to its next await and becomes `new`
Continue(old, new) == tasks' = (tasks (-) SetToBag({old})) (+) SetToBag({new})

Finish(task) == tasks' = tasks (-) SetToBag({task})

\* a handler run reports the payload of the session at seq
CountReport(seq) == [reportRuns EXCEPT ![seq] = Min(@ + 1, 2)]

\* the runs counted for a session end with it
ForgetReports(seq) == [reportRuns EXCEPT ![seq] = 0]

\* the sensors with a queue of settings: MotionSensorLux and VibrationContactSensor
Sensors == {"motion", "vibration"}

\* keys of settings that have a data point: one written with writeEnum and one
\* written with writeData32 for the motion sensor, the only one of the vibration sensor
SettingKeys(sensor) ==
    IF sensor = "motion"
    THEN {"sensitivity", "illuminance_interval"}
    ELSE {"sensitivity"}

DOUBLE_CLICK_WINDOW == 500

DEBOUNCE_MS == 5000

\* a setTimeout that is not armed
NoTimeout == -1

\* the state of the queued-settings sensors
sensors == <<pendingSettings, settingWriteInProgress, writing, issued, newSettings>>

\* the state of the soil sensor
soil == <<pendingSettingsApply, lastWakeHandledAt, soilSettings, soilDevice, awake>>

\* the state of the knob
knob == <<lastPressTime, singlePressTimeout>>

\* what the transfer handlers of the IR blaster leave alone: the clusters the node
\* has, and the devices of the other drivers
config == <<hasCluster, hasControl, hasTrigger, sensors, soil, knob, now, codes>>

\* onNodeInit of the other drivers' devices
InitOthers ==
    /\ pendingSettings = [sensor \in Sensors |-> <<>>]
    /\ settingWriteInProgress = FALSE
    /\ writing = [sensor \in Sensors |-> 0]
    /\ issued = [sensor \in Sensors |-> [key \in SettingKeys(sensor) |-> 0]]
    /\ newSettings = [sensor \in Sensors |-> [key \in SettingKeys(sensor) |-> 0]]
    /\ pendingSettingsApply = FALSE
    /\ lastWakeHandledAt = 0
    /\ soilSettings = 0
    /\ soilDevice = [write \in 1..APPLY_WRITES |-> 0]
    /\ awake = EmptyBag
    /\ now = DOUBLE_CLICK_WINDOW + DEBOUNCE_MS
    /\ lastPressTime = 0
    /\ singlePressTimeout = NoTimeout

\* no codes to compare
NoCodes == <<<<>>, <<>>>>

peer == <<payload, chunkLimit, fed, acked>>

\* the state of the IR blaster, and the arguments of its driver's condition card
blaster == <<hasCluster, hasControl, hasTrigger, peer, irStore, currentSeq,
             lastLearnSeqHandled, captureMode, tasks, reportRuns, codes>>

InitDevice ==
    /\ irStore = <<>>
    /\ currentSeq = 0
    /\ lastLearnSeqHandled = NoSeq
    /\ hasCluster \in BOOLEAN
    /\ hasControl \in BOOLEAN
    /\ hasTrigger \in BOOLEAN
    /\ captureMode = FALSE
    /\ tasks = EmptyBag
    /\ reportRuns = [s \in Seqs |-> 0]
    /\ last = Step("init", NoSeq, "", <<>>)
    /\ acked = {}
    /\ InitOthers

\* the transfer variables at rest
Idle ==
    /\ payload = <<>>
    /\ chunkLimit = 0
    /\ fed = 0

Init ==
    /\ InitDevice
    /\ Idle
    /\ codes = NoCodes

\* ------------------------------------------------------------ _startLearningMode
\* ok: whether the awaited control command resolves; nothing follows the await
\* but the return or the rethrow
\* a learn is pending: capture mode is on, or a Receive session is open
LearnPending == captureMode \/ \E seq \in DOMAIN irStore : IsRecv(irStore[seq])

\* with a second call rejected while a learn is pending
startLearningModeBusy(ok) ==
    /\ IF ~hasControl \/ LearnPending
       THEN /\ last' = Step("startLearningMode", NoSeq, "throw", <<>>)
            /\ UNCHANGED captureMode
       ELSE /\ last' = Step("startLearningMode", NoSeq, IF ok THEN "ok" ELSE "throw",
                            <<Study(0)>>)
            /\ captureMode' = (ok \/ captureMode)
    /\ UNCHANGED <<config, peer, irStore, currentSeq, lastLearnSeqHandled, tasks, reportRuns>>

\* without the check of the control cluster
startLearningModeUnchecked(ok) ==
    /\ last' = Step("startLearningMode", NoSeq, IF ok THEN "ok" ELSE "throw", <<Study(0)>>)
    /\ captureMode' = (ok \/ captureMode)
    /\ UNCHANGED <<config, peer, irStore, currentSeq, lastLearnSeqHandled, tasks, reportRuns>>

startLearningMode(ok) ==
    /\ IF ~hasControl
       THEN /\ last' = Step("startLearningMode", NoSeq, "throw", <<>>)
            /\ UNCHANGED captureMode
       ELSE /\ last' = Step("startLearningMode", NoSeq, IF ok THEN "ok" ELSE "throw", <<Study(0)>>)
            /\ captureMode' = (ok \/ captureMode)
    /\ UNCHANGED <<config, peer, irStore, currentSeq, lastLearnSeqHandled, tasks, reportRuns>>

\* ------------------------------------------------------------ _onCode00
\* without the check of line 228
IsDuplicateOpenNever(seq) == FALSE

IsDuplicateOpen(seq) == seq \in DOMAIN irStore

\* with the long captures discarded as well
SkipSaveImplausible(cmd, length) ==
    cmd = CMD_LEARN /\ (length < MIN_LEARN_LENGTH \/ length > LONG_LEARN_LENGTH)

SkipSave(cmd, length) == cmd = CMD_LEARN /\ length < MIN_LEARN_LENGTH

\* with an empty buffer
NewLearnEntryNoBuf(length, cmd) ==
    [buf |-> BufferAlloc(0), position |-> 0, length |-> length,
     skipSave |-> SkipSave(cmd, length)]

NewLearnEntry(length, cmd) ==
    [buf |-> BufferAlloc(length), position |-> 0, length |-> length,
     skipSave |-> SkipSave(cmd, length)]

onCode00(seq, length, cmd) ==
    /\ UNCHANGED <<config, peer, currentSeq, lastLearnSeqHandled,
                   captureMode>>
    /\ IF IsDuplicateOpen(seq)
       THEN /\ last' = Step("onCode00", seq, "duplicate", <<>>)
            /\ UNCHANGED <<irStore, tasks, reportRuns>>
       ELSE /\ irStore' = StoreSet(irStore, seq, NewLearnEntry(length, cmd))
            /\ reportRuns' = [reportRuns EXCEPT ![seq] = 0]
            /\ IF ~hasCluster
               THEN /\ last' = Step("onCode00", seq, "nocluster", <<>>)
                    /\ UNCHANGED tasks
               ELSE /\ CanSuspend
                    /\ Spawn(Task("onCode00", "ack", seq, NoCode))
                    /\ last' = Step("onCode00", seq, "await",
                                    <<Code01(seq, length, cmd)>>)

\* the Code01 send settled: on success the first chunk is requested
resumeOnCode00(task, ok) ==
    /\ task.op = "onCode00"
    /\ Finish(task)
    /\ last' = Step("resumeOnCode00", task.seq, IF ok THEN "ok" ELSE "caught",
                    IF ok THEN <<Code02(task.seq, 0, RECV_MAXLEN)>> ELSE <<>>)
    /\ UNCHANGED <<config, peer, irStore, currentSeq, lastLearnSeqHandled, captureMode, reportRuns>>

\* ------------------------------------------------------------ Code01 from the device
\* the listener of the bound cluster logs the acknowledgment
onCode01(seq, length) ==
    /\ last' = Step("onCode01", seq, "logged", <<>>)
    /\ UNCHANGED <<config, irStore, currentSeq, lastLearnSeqHandled, captureMode, tasks,
                   reportRuns>>

\* ------------------------------------------------------------ _onCode02
\* with the requested maximum honoured
ChunkPartLimited(data, position, maxlen) ==
    Substring(data, position, position + Min(maxlen, CHUNK_SIZE))

ChunkPart(data, position, maxlen) == Substring(data, position, position + CHUNK_SIZE)

\* with requests served for acknowledged sessions only
ServeChunkAcked(seq, position, maxlen) ==
    /\ UNCHANGED <<config, irStore, currentSeq, lastLearnSeqHandled, captureMode, tasks, reportRuns>>
    /\ IF seq \notin DOMAIN irStore
       THEN last' = StepArg("onCode02", seq, maxlen, "noentry", <<>>)
       ELSE IF ~IsSend(irStore[seq])
       THEN last' = StepArg("onCode02", seq, maxlen, "nodata", <<>>)
       ELSE IF ~hasCluster
       THEN last' = StepArg("onCode02", seq, maxlen, "nocluster", <<>>)
       ELSE IF seq \notin acked
       THEN last' = StepArg("onCode02", seq, maxlen, "unacked", <<>>)
       ELSE LET part == ChunkPart(irStore[seq].data, position, maxlen)
            IN  last' = StepArg("onCode02", seq, maxlen, "sent",
                                <<Code03(seq, position, BufferFromString(part),
                                         calcStringCrc(part))>>)

ServeChunk(seq, position, maxlen) ==
    /\ UNCHANGED <<config, irStore, currentSeq, lastLearnSeqHandled, captureMode, tasks, reportRuns>>
    /\ IF seq \notin DOMAIN irStore
       THEN last' = StepArg("onCode02", seq, maxlen, "noentry", <<>>)
       ELSE IF ~IsSend(irStore[seq])
       THEN last' = StepArg("onCode02", seq, maxlen, "nodata", <<>>)
       ELSE IF ~hasCluster
       THEN last' = StepArg("onCode02", seq, maxlen, "nocluster", <<>>)
       ELSE LET part == ChunkPart(irStore[seq].data, position, maxlen)
            IN  last' = StepArg("onCode02", seq, maxlen, "sent",
                                <<Code03(seq, position, BufferFromString(part),
                                         calcStringCrc(part))>>)

onCode02(seq, position, maxlen) == ServeChunk(seq, position, maxlen) /\ UNCHANGED peer

\* ------------------------------------------------------------ _onCode03 / _onCode03Bound
\* with the next request made at the position before the copy
HandleChunkStale(op, seq, position, msgpart, msgpartcrc) ==
    /\ UNCHANGED <<config, currentSeq, lastLearnSeqHandled,
                   captureMode, tasks, reportRuns>>
    /\ IF seq \notin DOMAIN irStore
       THEN last' = StepArg(op, seq, msgpartcrc, "noentry", <<>>) /\ UNCHANGED irStore
       ELSE IF ~hasCluster
       THEN last' = StepArg(op, seq, msgpartcrc, "nocluster", <<>>) /\ UNCHANGED irStore
       ELSE IF ~IsRecv(irStore[seq])
       THEN last' = StepArg(op, seq, msgpartcrc, "caught", <<>>) /\ UNCHANGED irStore
       ELSE LET entry == WriteChunk(irStore[seq], StripLengthPrefix(msgpart))
            IN  /\ irStore' = [irStore EXCEPT ![seq] = entry]
                /\ last' = StepArg(op, seq, msgpartcrc, "written",
                                IF entry.position < entry.length
                                THEN <<Code02(seq, irStore[seq].position, RECV_MAXLEN)>>
                                ELSE <<Code04(seq)>>)

\* with the first chunk asked for again when the sequence is unknown
HandleChunkAsking(op, seq, position, msgpart, msgpartcrc) ==
    /\ UNCHANGED <<config, currentSeq, lastLearnSeqHandled,
                   captureMode, tasks, reportRuns>>
    /\ IF seq \notin DOMAIN irStore
       THEN /\ last' = StepArg(op, seq, msgpartcrc, "noentry", <<Code02(seq, 0, RECV_MAXLEN)>>)
            /\ UNCHANGED irStore
       ELSE IF ~hasCluster
       THEN last' = StepArg(op, seq, msgpartcrc, "nocluster", <<>>) /\ UNCHANGED irStore
       ELSE IF ~IsRecv(irStore[seq])
       THEN last' = StepArg(op, seq, msgpartcrc, "caught", <<>>) /\ UNCHANGED irStore
       ELSE LET entry == WriteChunk(irStore[seq], StripLengthPrefix(msgpart))
            IN  /\ irStore' = [irStore EXCEPT ![seq] = entry]
                /\ last' = StepArg(op, seq, msgpartcrc, "written",
                                   IF entry.position < entry.length
                                   THEN <<Code02(seq, entry.position, RECV_MAXLEN)>>
                                   ELSE <<Code04(seq)>>)

\* with a chunk of another checksum than the declared one rejected
HandleChunkChecked(op, seq, position, msgpart, msgpartcrc) ==
    /\ UNCHANGED <<config, currentSeq, lastLearnSeqHandled,
                   captureMode, tasks, reportRuns>>
    /\ IF seq \notin DOMAIN irStore
       THEN last' = StepArg(op, seq, msgpartcrc, "noentry", <<>>) /\ UNCHANGED irStore
       ELSE IF ~hasCluster
       THEN last' = StepArg(op, seq, msgpartcrc, "nocluster", <<>>) /\ UNCHANGED irStore
       ELSE IF ~IsRecv(irStore[seq])
       THEN \* entry.buf is undefined: the TypeError is caught by the handler's try
            last' = StepArg(op, seq, msgpartcrc, "caught", <<>>) /\ UNCHANGED irStore
       ELSE IF msgpartcrc # calcCrc(StripLengthPrefix(msgpart))
       THEN last' = StepArg(op, seq, msgpartcrc, "crcmismatch", <<>>) /\ UNCHANGED irStore
       ELSE LET entry == WriteChunk(irStore[seq], StripLengthPrefix(msgpart))
            IN  /\ irStore' = [irStore EXCEPT ![seq] = entry]
                /\ last' = StepArg(op, seq, msgpartcrc, "written",
                                IF entry.position < entry.length
                                THEN <<Code02(seq, entry.position, RECV_MAXLEN)>>
                                ELSE <<Code04(seq)>>)

\* the two handlers differ in their log lines only
HandleChunk(op, seq, position, msgpart, msgpartcrc) ==
    /\ UNCHANGED <<config, currentSeq, lastLearnSeqHandled,
                   captureMode, tasks, reportRuns>>
    /\ IF seq \notin DOMAIN irStore
       THEN last' = StepArg(op, seq, msgpartcrc, "noentry", <<>>) /\ UNCHANGED irStore
       ELSE IF ~hasCluster
       THEN last' = StepArg(op, seq, msgpartcrc, "nocluster", <<>>) /\ UNCHANGED irStore
       ELSE IF ~IsRecv(irStore[seq])
       THEN \* entry.buf is undefined: the TypeError is caught by the handler's try
            last' = StepArg(op, seq, msgpartcrc, "caught", <<>>) /\ UNCHANGED irStore
       ELSE LET entry == WriteChunk(irStore[seq], StripLengthPrefix(msgpart))
            IN  /\ irStore' = [irStore EXCEPT ![seq] = entry]
                /\ last' = StepArg(op, seq, msgpartcrc, "written",
                                IF entry.position < entry.length
                                THEN <<Code02(seq, entry.position, RECV_MAXLEN)>>
                                ELSE <<Code04(seq)>>)

onCode03(seq, position, msgpart, msgpartcrc) ==
    HandleChunk("onCode03", seq, position, msgpart, msgpartcrc) /\ UNCHANGED peer

onCode03Bound(seq, position, msgpart, msgpartcrc) ==
    HandleChunk("onCode03Bound", seq, position, msgpart, msgpartcrc) /\ UNCHANGED peer

\* ------------------------------------------------------------ _onCode04
\* with the entry deleted before the Code05 send
onCode04Eager(seq, zero0) ==
    /\ UNCHANGED <<config, peer, currentSeq, lastLearnSeqHandled, captureMode>>
    /\ IF ~hasCluster
       THEN last' = Step("onCode04", seq, "nocluster", <<>>) /\ UNCHANGED <<irStore, tasks, reportRuns>>
       ELSE IF zero0 # 0
       THEN last' = Step("onCode04", seq, "deviceerror", <<>>) /\ UNCHANGED <<irStore, tasks, reportRuns>>
       ELSE /\ CanSuspend
            /\ Spawn(Task("onCode04", "fin", seq, NoCode))
            /\ irStore' = StoreDelete(irStore, seq)
            /\ reportRuns' = ForgetReports(seq)
            /\ last' = Step("onCode04", seq, "await", <<Code05(seq)>>)

onCode04(seq, zero0) ==
    /\ UNCHANGED <<config, peer, irStore, currentSeq, lastLearnSeqHandled, captureMode, reportRuns>>
    /\ IF ~hasCluster
       THEN last' = Step("onCode04", seq, "nocluster", <<>>) /\ UNCHANGED tasks
       ELSE IF zero0 # 0
       THEN last' = Step("onCode04", seq, "deviceerror", <<>>) /\ UNCHANGED tasks
       ELSE /\ CanSuspend
            /\ Spawn(Task("onCode04", "fin", seq, NoCode))
            /\ last' = Step("onCode04", seq, "await", <<Code05(seq)>>)

\* the Code05 send settled: on success the entry is deleted
resumeOnCode04(task, ok) ==
    /\ task.op = "onCode04"
    /\ Finish(task)
    /\ irStore' = IF ok THEN StoreDelete(irStore, task.seq) ELSE irStore
    /\ reportRuns' = IF ok THEN ForgetReports(task.seq) ELSE reportRuns
    /\ last' = Step("resumeOnCode04", task.seq, IF ok THEN "ok" ELSE "caught", <<>>)
    /\ UNCHANGED <<config, peer, currentSeq, lastLearnSeqHandled, captureMode>>

\* ------------------------------------------------------------ _onCode05 / _onCode05Bound
IsDuplicateLearnComplete(seq) == lastLearnSeqHandled = seq

\* "Stop learning mode" and the delete that follows it, from a handler at `here`
\* (NoTask when the handler has not been suspended yet); reports: the report count
NoTask == Task("none", "", NoSeq, NoCode)

StopLearning(here, op, stepOp, seq, out, reports) ==
    LET next == Task(op, "study", seq, NoCode) IN
    IF hasControl
    THEN /\ IF here = NoTask THEN CanSuspend /\ Spawn(next) ELSE Continue(here, next)
         /\ last' = Step(stepOp, seq, "await", out \o <<Study(1)>>)
         /\ reportRuns' = reports
         /\ UNCHANGED irStore
    ELSE /\ IF here = NoTask THEN UNCHANGED tasks ELSE Finish(here)
         /\ last' = Step(stepOp, seq, "done", out)
         /\ reportRuns' = [reports EXCEPT ![seq] = 0]
         /\ irStore' = StoreDelete(irStore, seq)

\* the study:1 send settled either way: the entry is deleted
StoppedLearning(task, stepOp, ok) ==
    /\ Finish(task)
    /\ captureMode' = (captureMode /\ ~ok)
    /\ irStore' = StoreDelete(irStore, task.seq)
    /\ reportRuns' = ForgetReports(task.seq)
    /\ last' = Step(stepOp, task.seq, "done", <<>>)
    /\ UNCHANGED lastLearnSeqHandled

\* how far a Code05 gets: taken for a repeat, no entry, an entry without buf (the
\* TypeError of entry.buf.toString leaves the handler uncaught), a discarded learn, or
\* the report
LearnOutcome(seq) ==
    IF IsDuplicateLearnComplete(seq) THEN "duplicate"
    ELSE IF seq \notin DOMAIN irStore THEN "noentry"
    ELSE IF ~IsRecv(irStore[seq]) THEN "throw"
    ELSE IF irStore[seq].skipSave THEN "discarded"
    ELSE "report"

\* the handler ends before the report
LearnUnreported(op, seq) ==
    LET outcome == LearnOutcome(seq) IN
    /\ last' = Step(op, seq, outcome, <<>>)
    /\ lastLearnSeqHandled' = IF outcome = "duplicate" THEN lastLearnSeqHandled ELSE seq
    /\ irStore' = IF outcome = "discarded" THEN StoreDelete(irStore, seq) ELSE irStore
    /\ reportRuns' = IF outcome = "discarded" THEN ForgetReports(seq) ELSE reportRuns
    /\ UNCHANGED tasks

onCode05(seq) ==
    /\ UNCHANGED <<config, peer, currentSeq, captureMode>>
    /\ IF LearnOutcome(seq) # "report"
       THEN LearnUnreported("onCode05", seq)
       ELSE LET code == Base64(irStore[seq].buf) IN
            /\ lastLearnSeqHandled' = seq
            /\ CanSuspend
            /\ Spawn(Task("onCode05", "save", seq, code))
            /\ last' = Step("onCode05", seq, "await", <<SetSettings(code)>>)
            /\ reportRuns' = CountReport(seq)
            /\ UNCHANGED irStore

resumeOnCode05(task, ok) ==
    /\ task.op = "onCode05"
    /\ UNCHANGED <<config, peer, currentSeq>>
    /\ CASE task.pc = "save" ->
                \* setSettings settled (a failure is caught): the trigger card, if any
                \* (without irLearnedTrigger the second lookup of the card finds none)
                /\ UNCHANGED <<lastLearnSeqHandled, captureMode>>
                /\ IF hasTrigger
                   THEN /\ Continue(task, Task("onCode05", "trig", task.seq, NoCode))
                        /\ last' = Step("resumeOnCode05", task.seq, "await",
                                        <<Trigger(task.code)>>)
                        /\ UNCHANGED <<irStore, reportRuns>>
                   ELSE StopLearning(task, "onCode05", "resumeOnCode05", task.seq, <<>>,
                                     reportRuns)
         [] task.pc = "trig" ->
                /\ UNCHANGED <<lastLearnSeqHandled, captureMode>>
                /\ StopLearning(task, "onCode05", "resumeOnCode05", task.seq, <<>>,
                                reportRuns)
         [] OTHER -> StoppedLearning(task, "resumeOnCode05", ok)

onCode05Bound(seq) ==
    /\ UNCHANGED <<config, peer, currentSeq, captureMode>>
    /\ IF LearnOutcome(seq) # "report"
       THEN LearnUnreported("onCode05Bound", seq)
       ELSE LET code == Base64(irStore[seq].buf) IN
            /\ lastLearnSeqHandled' = seq
            /\ StopLearning(NoTask, "onCode05Bound", "onCode05Bound", seq,
                            IF hasTrigger THEN <<Trigger(code)>> ELSE <<>>,
                            CountReport(seq))

resumeOnCode05Bound(task, ok) ==
    /\ task.op = "onCode05Bound"
    /\ UNCHANGED <<config, peer, currentSeq>>
    /\ StoppedLearning(task, "resumeOnCode05Bound", ok)

\* ------------------------------------------------------------ initiateIRSend
\* with the counter itself taken for the sequence number
AllocSeqUnwrapped == currentSeq

AllocSeq == currentSeq % SEQ_MODULUS

\* the blasts of a behaviour take sequence numbers from 0xffff to MaxSeq
SeqInBounds == (currentSeq % SEQ_MODULUS) \in Seqs \cup {SEQ_MODULUS - 1}

\* from the sequence number to the Code00 send
OpenSend(here, stepOp, code) ==
    LET seq == AllocSeq
        irMsg == Envelope(code)
        next == Task("initiateIRSend", "open", seq, NoCode)
    IN  /\ SeqInBounds
        /\ currentSeq' = currentSeq + 1
        /\ irStore' = StoreSet(irStore, seq, [data |-> irMsg, length |-> Len(irMsg)])
        /\ reportRuns' = [reportRuns EXCEPT ![seq] = 0]
        /\ IF here = NoTask THEN CanSuspend /\ Spawn(next) ELSE Continue(here, next)
        /\ last' = Step(stepOp, seq, "await",
                        <<Code00(seq, Len(irMsg), CMD_SEND)>>)

initiateIRSend(code) ==
    /\ UNCHANGED <<config, peer, lastLearnSeqHandled, captureMode>>
    /\ IF ~hasCluster
       THEN /\ last' = Step("initiateIRSend", NoSeq, "throw", <<>>)
            /\ UNCHANGED <<irStore, currentSeq, tasks, reportRuns>>
       ELSE IF hasControl
       THEN /\ SeqInBounds
            /\ CanSuspend
            /\ Spawn(Task("initiateIRSend", "study", NoSeq, code))
            /\ last' = Step("initiateIRSend", NoSeq, "await", <<Study(1)>>)
            /\ UNCHANGED <<irStore, currentSeq, reportRuns>>
       ELSE OpenSend(NoTask, "initiateIRSend", code)

\* with the session kept when the Code00 send failed
resumeInitiateIRSendKeeping(task, ok) ==
    /\ task.op = "initiateIRSend"
    /\ UNCHANGED <<config, peer, lastLearnSeqHandled>>
    /\ IF task.pc = "study"
       THEN /\ captureMode' = (captureMode /\ ~ok)
            /\ OpenSend(task, "resumeInitiateIRSend", task.code)
       ELSE /\ Finish(task)
            /\ last' = Step("resumeInitiateIRSend", task.seq, IF ok THEN "ok" ELSE "throw", <<>>)
            /\ UNCHANGED <<irStore, reportRuns, currentSeq, captureMode>>

\* with the call failing when the study:1 send failed
resumeInitiateIRSendStrict(task, ok) ==
    /\ task.op = "initiateIRSend"
    /\ UNCHANGED <<config, peer, lastLearnSeqHandled>>
    /\ IF task.pc = "study" /\ ok
       THEN /\ captureMode' = FALSE
            /\ OpenSend(task, "resumeInitiateIRSend", task.code)
       ELSE IF task.pc = "study"
       THEN /\ Finish(task)
            /\ last' = Step("resumeInitiateIRSend", NoSeq, "throw", <<>>)
            /\ UNCHANGED <<irStore, currentSeq, captureMode, reportRuns>>
       ELSE /\ Finish(task)
            /\ irStore' = IF ok THEN irStore ELSE StoreDelete(irStore, task.seq)
            /\ reportRuns' = IF ok THEN reportRuns ELSE ForgetReports(task.seq)
            /\ last' = Step("resumeInitiateIRSend", task.seq, IF ok THEN "ok" ELSE "throw", <<>>)
            /\ UNCHANGED <<currentSeq, captureMode>>

resumeInitiateIRSend(task, ok) ==
    /\ task.op = "initiateIRSend"
    /\ UNCHANGED <<config, peer, lastLearnSeqHandled>>
    /\ IF task.pc = "study"
       THEN \* a failed study:1 is caught and logged
            /\ captureMode' = (captureMode /\ ~ok)
            /\ OpenSend(task, "resumeInitiateIRSend", task.code)
       ELSE /\ Finish(task)
            /\ irStore' = IF ok THEN irStore ELSE StoreDelete(irStore, task.seq)
            /\ reportRuns' = IF ok THEN reportRuns ELSE ForgetReports(task.seq)
            /\ last' = Step("resumeInitiateIRSend", task.seq, IF ok THEN "ok" ELSE "throw", <<>>)
            /\ UNCHANGED <<currentSeq, captureMode>>

\* ------------------------------------------------------------ the peer and the user
\* byte j (from 0) of the code the peripheral has captured
PeerByte(j) == (j * 7 + 101) % CRC_MODULUS

PeerChunk(offset, n) == [i \in 1..n |-> PeerByte(offset + i - 1)]

\* what is left of the session's payload at an offset, up to 0x38 bytes
PeerLeft(seq, offset) ==
    IF seq \in DOMAIN irStore
    THEN Min(RECV_MAXLEN, Max(irStore[seq].length - offset, 0))
    ELSE RECV_MAXLEN

\* offsets of inbound chunks: the one asked for, and the first chunk again
ChunkOffsets(seq) ==
    {0} \cup (IF seq \in DOMAIN irStore /\ IsRecv(irStore[seq])
              THEN {irStore[seq].position} ELSE {})

\* chunks the peer delivers for an offset: what is left, and the same behind a
\* length byte
ChunkInputs(seq, offset) ==
    {PeerChunk(offset, PeerLeft(seq, offset)),
     <<PeerLeft(seq, offset)>> \o PeerChunk(offset, PeerLeft(seq, offset))}

\* Open events of the peer: a short capture, one of plausible length, and a short
\* transfer that is no learn
LearnOpens == {[length |-> 40, cmd |-> CMD_LEARN], [length |-> 95, cmd |-> CMD_LEARN],
               [length |-> 40, cmd |-> CMD_SEND]}

\* Open event of a long key press: a capture above the "very long" length
LongOpens == {[length |-> LONG_LEARN_LENGTH + 1, cmd |-> CMD_LEARN]}

RequestOffsets == {0, CHUNK_SIZE, 2 * CHUNK_SIZE}

RequestMaxlens == {RECV_MAXLEN, 30}

\* stored codes the user sends: base64 text of 4 and of 44 characters
SendCodes == {[i \in 1..4 |-> 65], [i \in 1..44 |-> 66 + (i % 5)]}

\* the peripheral runs one transfer at a time: it opens a sequence when no other
\* one is open, or repeats the Open of the open one
PeerMayOpen(seq) == DOMAIN irStore \subseteq {seq}

InitAll ==
    /\ Init
    /\ hasCluster /\ hasControl /\ hasTrigger

\* ------------------------------------------------------------ learn direction
\* the chunk the peer owes at the session's cursor
NextChunk(seq) ==
    IF seq \in DOMAIN irStore /\ IsRecv(irStore[seq])
    THEN PeerChunk(irStore[seq].position, PeerLeft(seq, irStore[seq].position))
    ELSE PeerChunk(0, RECV_MAXLEN)

OpenFrom(opens) ==
    \E seq \in Seqs, open \in opens :
        PeerMayOpen(seq) /\ onCode00(seq, open.length, open.cmd)

OpenFromPeer == OpenFrom(LearnOpens)

\* chunk transfer: Opens, and chunks in order, repeated, with and without the
\* length byte, through either handler
NextChunks ==
    \/ OpenFromPeer
    \/ \E seq \in Seqs : \E position \in ChunkOffsets(seq) :
       \E msgpart \in ChunkInputs(seq, position) :
            onCode03(seq, position, msgpart, calcCrc(msgpart))
    \/ \E seq \in Seqs : \E position \in ChunkOffsets(seq) :
       \E msgpart \in ChunkInputs(seq, position) :
            onCode03Bound(seq, position, msgpart, calcCrc(msgpart))
    \/ \E task \in BagToSet(tasks), ok \in BOOLEAN : resumeOnCode00(task, ok)

SpecChunks == InitAll /\ [][NextChunks]_vars

\* the end of a learn: Opens, chunks in order, and CompleteAck events for any
\* sequence at any time through either handler
NextFinal ==
    \/ OpenFromPeer
    \/ \E seq \in DOMAIN irStore :
            IsRecv(irStore[seq]) /\
            onCode03(seq, irStore[seq].position, NextChunk(seq), calcCrc(NextChunk(seq)))
    \/ \E seq \in Seqs : onCode05(seq)
    \/ \E seq \in Seqs : onCode05Bound(seq)
    \/ \E task \in BagToSet(tasks), ok \in BOOLEAN : resumeOnCode00(task, ok)
    \/ \E task \in BagToSet(tasks), ok \in BOOLEAN : resumeOnCode05(task, ok)
    \/ \E task \in BagToSet(tasks), ok \in BOOLEAN : resumeOnCode05Bound(task, ok)

SpecFinal == InitAll /\ [][NextFinal]_vars

\* every await settles: a handler suspended in a send is resumed; the peer and the
\* user owe nothing
AwaitSettles ==
    \/ \E task \in BagToSet(tasks), ok \in BOOLEAN : resumeOnCode00(task, ok)
    \/ \E task \in BagToSet(tasks), ok \in BOOLEAN : resumeOnCode05(task, ok)
    \/ \E task \in BagToSet(tasks), ok \in BOOLEAN : resumeOnCode05Bound(task, ok)

SpecFinalFair == SpecFinal /\ WF_vars(AwaitSettles)

\* long key presses: the Code05 events are those of the open sessions
NextLong ==
    \/ OpenFrom(LongOpens)
    \/ \E seq \in DOMAIN irStore :
            IsRecv(irStore[seq]) /\
            onCode03(seq, irStore[seq].position, NextChunk(seq), calcCrc(NextChunk(seq)))
    \/ \E seq \in DOMAIN irStore : onCode05(seq)
    \/ \E task \in BagToSet(tasks), ok \in BOOLEAN : resumeOnCode00(task, ok)
    \/ \E task \in BagToSet(tasks), ok \in BOOLEAN : resumeOnCode05(task, ok)

SpecLong == InitAll /\ [][NextLong]_vars

\* chunks of any size: those of ChunkInputs, an empty one and one longer than asked for
ChunkInputsAny(seq, offset) ==
    ChunkInputs(seq, offset) \cup {<<>>, PeerChunk(offset, RECV_MAXLEN + 4)}

NextChunksAny ==
    \/ OpenFromPeer
    \/ \E seq \in Seqs : \E position \in ChunkOffsets(seq) :
       \E msgpart \in ChunkInputsAny(seq, position) :
            onCode03(seq, position, msgpart, calcCrc(msgpart))
    \/ \E seq \in Seqs : \E position \in ChunkOffsets(seq) :
       \E msgpart \in ChunkInputsAny(seq, position) :
            onCode03Bound(seq, position, msgpart, calcCrc(msgpart))
    \/ \E task \in BagToSet(tasks), ok \in BOOLEAN : resumeOnCode00(task, ok)

SpecChunksAny == InitAll /\ [][NextChunksAny]_vars

\* checksums the peer declares for a chunk: the byte sum of its data modulo 0x100,
\* that sum plus one, and the byte sum of the chunk with its length byte
ChunkCrcs(msgpart) ==
    {calcCrc(StripLengthPrefix(msgpart)),
     (calcCrc(StripLengthPrefix(msgpart)) + 1) % CRC_MODULUS,
     calcCrc(msgpart)}

\* chunk transfer with right and wrong checksums
NextChunksCrc ==
    \/ OpenFromPeer
    \/ \E seq \in Seqs : \E position \in ChunkOffsets(seq) :
       \E msgpart \in ChunkInputs(seq, position) : \E msgpartcrc \in ChunkCrcs(msgpart) :
            onCode03(seq, position, msgpart, msgpartcrc)
    \/ \E seq \in Seqs : \E position \in ChunkOffsets(seq) :
       \E msgpart \in ChunkInputs(seq, position) : \E msgpartcrc \in ChunkCrcs(msgpart) :
            onCode03Bound(seq, position, msgpart, msgpartcrc)
    \/ \E task \in BagToSet(tasks), ok \in BOOLEAN : resumeOnCode00(task, ok)

SpecChunksCrc == InitAll /\ [][NextChunksCrc]_vars

\* ------------------------------------------------------------ send direction
\* blasts by the user, the peer's chunk requests and Complete events, and Opens of
\* the peer
NextSend ==
    \/ \E code \in SendCodes : initiateIRSend(code)
    \/ \E task \in BagToSet(tasks), ok \in BOOLEAN : resumeInitiateIRSend(task, ok)
    \/ \E seq \in Seqs, position \in RequestOffsets, maxlen \in RequestMaxlens :
            onCode02(seq, position, maxlen)
    \/ \E seq \in Seqs, zero0 \in {0, 1} : onCode04(seq, zero0)
    \/ \E task \in BagToSet(tasks), ok \in BOOLEAN : resumeOnCode04(task, ok)
    \/ OpenFromPeer
    \/ \E task \in BagToSet(tasks), ok \in BOOLEAN : resumeOnCode00(task, ok)

SpecSend == InitAll /\ [][NextSend]_vars

\* blasts and the peer's chunk requests only
NextServe ==
    \/ \E code \in SendCodes : initiateIRSend(code)
    \/ \E task \in BagToSet(tasks), ok \in BOOLEAN : resumeInitiateIRSend(task, ok)
    \/ \E seq \in Seqs, position \in RequestOffsets, maxlen \in RequestMaxlens :
            onCode02(seq, position, maxlen)

SpecServe == InitAll /\ [][NextServe]_vars

\* sessions opened from both sides, and Opens repeated
NextOpens ==
    \/ \E code \in SendCodes : initiateIRSend(code)
    \/ \E task \in BagToSet(tasks), ok \in BOOLEAN : resumeInitiateIRSend(task, ok)
    \/ OpenFromPeer
    \/ \E task \in BagToSet(tasks), ok \in BOOLEAN : resumeOnCode00(task, ok)

SpecOpens == InitAll /\ [][NextOpens]_vars

\* blasts and the peer's Complete events only
NextComplete ==
    \/ \E code \in SendCodes : initiateIRSend(code)
    \/ \E task \in BagToSet(tasks), ok \in BOOLEAN : resumeInitiateIRSend(task, ok)
    \/ \E seq \in Seqs, zero0 \in {0, 1} : onCode04(seq, zero0)
    \/ \E task \in BagToSet(tasks), ok \in BOOLEAN : resumeOnCode04(task, ok)

SpecComplete == InitAll /\ [][NextComplete]_vars

\* the peer acknowledges the Open of a Send session, echoing its length, at any time
\* after the Open was sent
AckFromPeer ==
    \E seq \in DOMAIN irStore :
        /\ IsSend(irStore[seq])
        /\ onCode01(seq, irStore[seq].length)
        /\ acked' = acked \cup {seq}
        /\ UNCHANGED <<payload, chunkLimit, fed>>

\* blasts, acknowledgments and chunk requests in any order
NextAck ==
    \/ \E code \in {code \in SendCodes : Len(code) > 4} : initiateIRSend(code)
    \/ \E task \in BagToSet(tasks), ok \in BOOLEAN : resumeInitiateIRSend(task, ok)
    \/ AckFromPeer
    \/ \E seq \in Seqs, position \in RequestOffsets, maxlen \in RequestMaxlens :
            onCode02(seq, position, maxlen)

SpecAck == InitAll /\ [][NextAck]_vars

\* sessions of both directions, and chunk requests and chunks for any sequence
NextStray ==
    \/ OpenFrom({open \in LearnOpens : open.length >= MIN_LEARN_LENGTH})
    \/ \E task \in BagToSet(tasks), ok \in BOOLEAN : resumeOnCode00(task, ok)
    \/ \E code \in {code \in SendCodes : Len(code) <= 4} : initiateIRSend(code)
    \/ \E task \in BagToSet(tasks), ok \in BOOLEAN : resumeInitiateIRSend(task, ok)
    \/ \E seq \in Seqs, maxlen \in RequestMaxlens : onCode02(seq, 0, maxlen)
    \/ \E seq \in Seqs : \E position \in ChunkOffsets(seq) :
            onCode03(seq, position, NextChunk(seq), calcCrc(NextChunk(seq)))
    \/ \E seq \in Seqs : \E position \in ChunkOffsets(seq) :
            onCode03Bound(seq, position, NextChunk(seq), calcCrc(NextChunk(seq)))

SpecStray == InitAll /\ [][NextStray]_vars

\* ------------------------------------------------------------ one blast, in order
\* codes whose envelopes have 79, 82, 100, 120, 122, 150, 175 and 200 characters
InOrderCodes == {[i \in 1..n |-> 65 + (i % 7)] : n \in {1, 4, 22, 42, 44, 72, 97, 122}}

\* one blast of the user
BlastOnce ==
    /\ currentSeq = 0
    /\ tasks = EmptyBag
    /\ \E code \in InOrderCodes : initiateIRSend(code)

\* the peer asks for the envelope in order: at 0, then at the end of what it has;
\* payload is what it has received, fed its length
RequestInOrder ==
    /\ 0 \in DOMAIN irStore
    /\ IsSend(irStore[0])
    /\ fed < irStore[0].length
    /\ ServeChunk(0, fed, RECV_MAXLEN)
    /\ payload' = payload \o last'.out[1].msgpart
    /\ fed' = fed + Len(last'.out[1].msgpart)
    /\ UNCHANGED <<chunkLimit, acked>>

NextInOrder ==
    \/ BlastOnce
    \/ \E task \in BagToSet(tasks), ok \in BOOLEAN : resumeInitiateIRSend(task, ok)
    \/ RequestInOrder

SpecInOrder == InitAll /\ [][NextInOrder]_vars

\* the same, with and without the control cluster
InitSend ==
    /\ Init
    /\ hasCluster /\ hasTrigger

SpecBlast == InitSend /\ [][NextComplete]_vars

\* the calls of the user: learning mode and blasts, with and without the control
\* cluster
NextCalls ==
    \/ \E ok \in BOOLEAN : startLearningMode(ok)
    \/ \E code \in SendCodes : initiateIRSend(code)
    \/ \E task \in BagToSet(tasks), ok \in BOOLEAN : resumeInitiateIRSend(task, ok)

SpecCalls == InitSend /\ [][NextCalls]_vars

\* ------------------------------------------------------------ sessions side by side
\* Opens of two short transfers, a capture and one that is no learn
ShortOpens == {[length |-> 2, cmd |-> CMD_LEARN], [length |-> 3, cmd |-> CMD_SEND]}

\* the shorter of the stored codes
ShortCodes == {code \in SendCodes : Len(code) <= 4}

\* every handler, for every sequence, whatever else is open: empty chunks, failed
\* sends, Complete and CompleteAck events for sequences of either direction
NextSideBySide ==
    \/ \E seq \in Seqs, open \in ShortOpens : onCode00(seq, open.length, open.cmd)
    \/ \E task \in BagToSet(tasks), ok \in BOOLEAN : resumeOnCode00(task, ok)
    \/ \E seq \in Seqs : onCode02(seq, 0, RECV_MAXLEN)
    \/ \E seq \in Seqs : \E msgpart \in {NextChunk(seq), <<>>} :
            onCode03(seq, 0, msgpart, calcCrc(msgpart))
    \/ \E seq \in Seqs : \E msgpart \in {NextChunk(seq), <<>>} :
            onCode03Bound(seq, 0, msgpart, calcCrc(msgpart))
    \/ \E seq \in Seqs, zero0 \in {0, 1} : onCode04(seq, zero0)
    \/ \E task \in BagToSet(tasks), ok \in BOOLEAN : resumeOnCode04(task, ok)
    \/ \E seq \in Seqs : onCode05(seq)
    \/ \E task \in BagToSet(tasks), ok \in BOOLEAN : resumeOnCode05(task, ok)
    \/ \E seq \in Seqs : onCode05Bound(seq)
    \/ \E task \in BagToSet(tasks), ok \in BOOLEAN : resumeOnCode05Bound(task, ok)
    \/ \E code \in ShortCodes : initiateIRSend(code)
    \/ \E task \in BagToSet(tasks), ok \in BOOLEAN : resumeInitiateIRSend(task, ok)

SpecSideBySide == InitAll /\ [][NextSideBySide]_vars

\* the device after 65535 blasts, or after none
InitWrap ==
    /\ irStore = <<>>
    /\ currentSeq \in {0, SEQ_MODULUS - 1}
    /\ lastLearnSeqHandled = NoSeq
    /\ hasCluster = TRUE
    /\ hasControl \in BOOLEAN
    /\ hasTrigger = TRUE
    /\ captureMode = FALSE
    /\ tasks = EmptyBag
    /\ reportRuns = [s \in Seqs \cup {SEQ_MODULUS - 1} |-> 0]
    /\ last = Step("init", NoSeq, "", <<>>)
    /\ payload = <<>>
    /\ chunkLimit = 0
    /\ fed = 0
    /\ acked = {}
    /\ InitOthers
    /\ codes = NoCodes

SpecWrap == InitWrap /\ [][NextCalls]_vars

\* ------------------------------------------------------------ learning mode
\* the user asks for learning mode at any time, also during a learn
NextLearnMode ==
    \/ \E ok \in BOOLEAN : startLearningMode(ok)
    \/ OpenFromPeer
    \/ \E seq \in DOMAIN irStore :
            IsRecv(irStore[seq]) /\
            onCode03Bound(seq, irStore[seq].position, NextChunk(seq), calcCrc(NextChunk(seq)))
    \/ \E seq \in Seqs : onCode05Bound(seq)
    \/ \E task \in BagToSet(tasks), ok \in BOOLEAN : resumeOnCode00(task, ok)
    \/ \E task \in BagToSet(tasks), ok \in BOOLEAN : resumeOnCode05Bound(task, ok)

SpecLearnMode == InitAll /\ [][NextLearnMode]_vars

\* ------------------------------------------------------------ round trip
RoundTripBytes == {0, 1, 2, 255}

Payloads == UNION {[1..n -> RoundTripBytes] : n \in 1..MaxPayload}

InitRoundTrip ==
    /\ InitDevice
    /\ hasCluster /\ hasControl /\ hasTrigger
    /\ payload \in Payloads
    /\ chunkLimit \in 1..MaxPayload
    /\ fed = 0
    /\ codes = NoCodes

\* the peer announces the payload
OpenRoundTrip ==
    /\ irStore = <<>>
    /\ fed = 0
    /\ onCode00(0, Len(payload), CMD_LEARN)

\* the next chunk of split(payload, chunkLimit)
SplitChunk == SubSeq(payload, fed + 1, Min(fed + chunkLimit, Len(payload)))

\* the peer delivers the chunks of the split in order
FeedChunk ==
    /\ 0 \in DOMAIN irStore
    /\ fed < Len(payload)
    /\ \E op \in {"onCode03", "onCode03Bound"} :
            HandleChunk(op, 0, fed, SplitChunk, calcCrc(SplitChunk))
    /\ fed' = fed + Len(SplitChunk)
    /\ UNCHANGED <<payload, chunkLimit, acked>>

NextRoundTrip ==
    \/ OpenRoundTrip
    \/ FeedChunk
    \/ \E task \in BagToSet(tasks), ok \in BOOLEAN : resumeOnCode00(task, ok)

SpecRoundTrip == InitRoundTrip /\ [][NextRoundTrip]_vars

\* ------------------------------------------------------------ checksums
\* byte strings given to the checksum functions; their sums pass 0x100 and 0x200
CrcBytes == {0, 1, 2, 128, 255}

CrcInputs == UNION {[1..n -> CrcBytes] : n \in 0..MaxPayload}

InitCrc ==
    /\ InitDevice
    /\ hasCluster /\ hasControl /\ hasTrigger
    /\ payload \in CrcInputs
    /\ chunkLimit = 0
    /\ fed = 0
    /\ codes = NoCodes

\* String.fromCharCode(...buffer): the string whose code units are the bytes
StringOfBytes(buffer) == [i \in 1..Len(buffer) |-> buffer[i]]

\* a call of one of the checksum functions with the byte string, or with the string
\* of its bytes; the result is kept in last.arg
CallCrc(op, result) ==
    /\ last' = StepArg(op, NoSeq, result, "ok", <<>>)
    /\ UNCHANGED <<config, peer, irStore, currentSeq, lastLearnSeqHandled, captureMode,
                   tasks, reportRuns>>

NextCrc ==
    \/ CallCrc("calcCrc", calcCrc(payload))
    \/ CallCrc("calcArrayCrc", calcArrayCrc(payload))
    \/ CallCrc("calcStringCrc", calcStringCrc(StringOfBytes(payload)))

SpecCrc == InitCrc /\ [][NextCrc]_vars

\* ------------------------------------------------------------ chunk transfer
\* C1: a chunk for an open Receive session whose offset differs from the session's
\* cursor (the first chunk delivered again, for one) leaves the session's cursor
\* and buffer as they are
C1_OffsetMismatchRejected ==
    [][\A seq \in DOMAIN irStore : \A position \in ChunkOffsets(seq) :
       \A msgpart \in ChunkInputs(seq, position) :
            ( /\ IsRecv(irStore[seq])
              /\ position # irStore[seq].position
              /\ \/ onCode03(seq, position, msgpart, calcCrc(msgpart))
                 \/ onCode03Bound(seq, position, msgpart, calcCrc(msgpart)) )
            => irStore'[seq] = irStore[seq]]_vars

\* ------------------------------------------------------------ sequence numbers
\* C2: the step of initiateIRSend that takes a sequence number and stores the Send
\* session never takes a number that is open in the store, so it replaces no
\* session
C2_SendNeverOverwrites ==
    [][\A code \in SendCodes : \A task \in BagToSet(tasks) : \A ok \in BOOLEAN :
            ( /\ initiateIRSend(code) \/ resumeInitiateIRSend(task, ok)
              /\ currentSeq' # currentSeq )
            => AllocSeq \notin DOMAIN irStore]_vars

\* ------------------------------------------------------------ duplicate Open
\* C3: an Open for a sequence that is open in the store, in either direction and
\* also while the first Open's handler awaits its Code01 send, changes neither the
\* store nor the suspended handlers and sends nothing
C3_DuplicateOpenIgnored ==
    [][\A seq \in DOMAIN irStore : \A open \in LearnOpens :
            onCode00(seq, open.length, open.cmd)
            => /\ irStore' = irStore
               /\ tasks' = tasks
               /\ last'.out = <<>>]_vars

\* an Open was ignored while the handler of the first Open is still suspended
C3_Witness ==
    /\ last.op = "onCode00"
    /\ last.res = "duplicate"
    /\ \E task \in BagToSet(tasks) : task.op = "onCode00" /\ task.seq = last.seq
    /\ IsRecv(irStore[last.seq])

\* ------------------------------------------------------------ leaving capture mode
\* C4: a Receive session leaves the store only in the step that continues a
\* handler from its study:1 send, so no learn ends without that command
C4_StudyLeaveOnEveryExit ==
    [][\A seq \in DOMAIN irStore :
            (IsRecv(irStore[seq]) /\ seq \notin DOMAIN irStore')
            => \E task \in BagToSet(tasks) :
                    task.pc = "study" /\ task.seq = seq /\ Finish(task)]_vars

ServedPart(data, position, n) ==
    [i \in 1..Min(n, Max(0, Len(data) - position)) |-> data[position + i]]

\* (a step of onCode02(seq, position, maxlen) records seq and maxlen in last; the
\* formulas below test that first)
\* C6 (as the code has it): a chunk request for an open Send session is answered
\* with one Code03 of the same sequence and position that carries the
\* min(50, length - position) characters of the envelope from position on, whatever
\* maximum was requested, and the sum of their codes modulo 256
C6_ChunkOfFixedSize ==
    [][\A seq \in DOMAIN irStore : \A position \in RequestOffsets :
       \A maxlen \in RequestMaxlens :
            ( /\ IsSend(irStore[seq])
              /\ last'.seq = seq /\ last'.arg = maxlen
              /\ onCode02(seq, position, maxlen) )
            => LET part == ServedPart(irStore[seq].data, position, CHUNK_SIZE)
               IN  last'.out = <<Code03(seq, position, part, SumSeq(part) % CRC_MODULUS)>>]_vars

\* C6 (as stated): the Code03 carries min(requested maximum, 50, length - position)
\* characters of the envelope from position on and their sum modulo 256
C6_ChunkWithinRequestedMax ==
    [][\A seq \in DOMAIN irStore : \A position \in RequestOffsets :
       \A maxlen \in RequestMaxlens :
            ( /\ IsSend(irStore[seq])
              /\ last'.seq = seq /\ last'.arg = maxlen
              /\ onCode02(seq, position, maxlen) )
            => LET part == ServedPart(irStore[seq].data, position, Min(maxlen, CHUNK_SIZE))
               IN  last'.out = <<Code03(seq, position, part, SumSeq(part) % CRC_MODULUS)>>]_vars

\* a request for at most 30 characters was answered with 50
C6_Witness ==
    /\ last.op = "onCode02"
    /\ last.res = "sent"
    /\ last.arg < CHUNK_SIZE
    /\ Len(last.out[1].msgpart) = CHUNK_SIZE

\* ------------------------------------------------------------ round trip
\* C7: once the peer has delivered all chunks of split(payload, chunkLimit) in
\* order, the buffer of the session is the payload
C7_RoundTrip ==
    (0 \in DOMAIN irStore /\ fed = Len(payload)) => irStore[0].buf = payload

C9_ShortLearnRemoved ==
    [][\A seq \in DOMAIN irStore :
            ( /\ IsRecv(irStore[seq])
              /\ irStore[seq].skipSave
              /\ irStore[seq].position = irStore[seq].length
              /\ onCode05(seq) \/ onCode05Bound(seq) )
            => /\ seq \notin DOMAIN irStore'
               /\ last'.out = <<>>]_vars

\* ------------------------------------------------------------ one report per session
\* C10: no session's payload is reported by more than one handler run
C10_ReportedOnce == \A seq \in Seqs : reportRuns[seq] <= 1

\* ------------------------------------------------------------ Complete
\* a Code05 send for seq is under way: a run of _onCode04 is suspended in it
AckPending(seq) ==
    \E task \in BagToSet(tasks) : task.op = "onCode04" /\ task.seq = seq

\* C11: a Complete for an open Send session makes the hub send a CompleteAck only
\* when no CompleteAck for that sequence is under way, so a Complete delivered
\* twice is answered once
C11_CompleteAnsweredOnce ==
    [][\A seq \in DOMAIN irStore : \A zero0 \in {0, 1} :
            (IsSend(irStore[seq]) /\ onCode04(seq, zero0) /\ last'.out # <<>>)
            => ~AckPending(seq)]_vars

\* C12: a Complete with zero marker for an open Send session sends one Code05 of
\* the same sequence and leaves the session in the store; a Send session for which
\* no CompleteAck is under way stays in the store unless its own Open send failed,
\* so the session goes only after the Code05 send
C12_AckThenRemove ==
    [][/\ \A seq \in DOMAIN irStore :
            (IsSend(irStore[seq]) /\ onCode04(seq, 0))
            => /\ last'.out = <<Code05(seq)>>
               /\ irStore' = irStore
       /\ \A seq \in DOMAIN irStore :
            (IsSend(irStore[seq]) /\ seq \notin DOMAIN irStore')
            => \E task \in BagToSet(tasks), ok \in BOOLEAN :
                    /\ task.seq = seq
                    /\ \/ task.op = "onCode04" /\ ok /\ resumeOnCode04(task, ok)
                       \/ task.op = "initiateIRSend" /\ ~ok
                          /\ resumeInitiateIRSend(task, ok)
       /\ \A task \in BagToSet(tasks) :
            ( /\ task.seq \in DOMAIN irStore
              /\ IsSend(irStore[task.seq])
              /\ resumeOnCode04(task, TRUE) )
            => task.seq \notin DOMAIN irStore']_vars

\* the Code05 for an open Send session is being sent and the session is still there
C12_Witness ==
    /\ last.op = "onCode04"
    /\ last.out = <<Code05(last.seq)>>
    /\ last.seq \in DOMAIN irStore
    /\ IsSend(irStore[last.seq])
    /\ AckPending(last.seq)

\* C13: a Complete with a marker other than zero for an open Send session removes
\* the session from the store and sends no Code05
C13_BadMarkerAborts ==
    [][\A seq \in DOMAIN irStore :
            (IsSend(irStore[seq]) /\ onCode04(seq, 1))
            => /\ seq \notin DOMAIN irStore'
               /\ last'.out = <<>>]_vars

\* ------------------------------------------------------------ cursor
\* C14: after every step every Receive session has 0 <= position <= length <=
\* buf.length, and the position of a session that stays open does not decrease
C14_CursorInBounds ==
    [][/\ \A seq \in DOMAIN irStore' :
            IsRecv(irStore'[seq])
            => /\ 0 <= irStore'[seq].position
               /\ irStore'[seq].position <= irStore'[seq].length
               /\ irStore'[seq].length <= Len(irStore'[seq].buf)
       /\ \A seq \in DOMAIN irStore \cap DOMAIN irStore' :
            (IsRecv(irStore[seq]) /\ IsRecv(irStore'[seq]))
            => irStore'[seq].position >= irStore[seq].position]_vars

\* a repeated first chunk was cut at the end of the buffer: byte 56 of the full
\* buffer is the first byte of the capture
C14_Witness ==
    \E seq \in DOMAIN irStore :
        /\ IsRecv(irStore[seq])
        /\ irStore[seq].length > RECV_MAXLEN
        /\ irStore[seq].position = irStore[seq].length
        /\ irStore[seq].buf[RECV_MAXLEN + 1] = PeerByte(0)

\* ------------------------------------------------------------ after a chunk
\* C15: each chunk taken by a Receive session is answered with exactly one message,
\* a Code02 (sequence, new position, maxlen 56) while the position is below the
\* length and a Code04 of the sequence otherwise; for a length of 95 the first
\* 56 bytes are answered with the request at 56 and the 39 bytes that follow with
\* the Code04, the buffer then holding the 95 bytes
C15_OneAnswerPerChunk ==
    [][\A seq \in DOMAIN irStore : \A position \in ChunkOffsets(seq) :
       \A msgpart \in ChunkInputs(seq, position) :
            ( /\ IsRecv(irStore[seq])
              /\ \/ onCode03(seq, position, msgpart, calcCrc(msgpart))
                 \/ onCode03Bound(seq, position, msgpart, calcCrc(msgpart)) )
            => /\ Len(last'.out) = 1
               /\ irStore'[seq].position < irStore'[seq].length
                    => last'.out[1] = Code02(seq, irStore'[seq].position, 56)
               /\ irStore'[seq].position >= irStore'[seq].length
                    => last'.out[1] = Code04(seq)
               /\ ( /\ irStore[seq].length = 95
                    /\ irStore[seq].position = 0
                    /\ msgpart = PeerChunk(0, 56) )
                    => last'.out[1] = Code02(seq, 56, 56)
               /\ ( /\ irStore[seq].length = 95
                    /\ irStore[seq].position = 56
                    /\ irStore[seq].buf = PeerChunk(0, 56) \o BufferAlloc(39)
                    /\ msgpart = PeerChunk(56, 39) )
                    => /\ last'.out[1] = Code04(seq)
                       /\ irStore'[seq].buf = PeerChunk(0, 95)]_vars

\* the capture of 95 bytes is complete and the Code04 was sent
C15_Witness ==
    /\ last.op \in {"onCode03", "onCode03Bound"}
    /\ last.seq \in DOMAIN irStore
    /\ last.out = <<Code04(last.seq)>>
    /\ irStore[last.seq].length = 95
    /\ irStore[last.seq].buf = PeerChunk(0, 95)

C17_InOrderCover ==
    \A seq \in DOMAIN irStore :
        IsSend(irStore[seq])
        => LET data == irStore[seq].data
               L == irStore[seq].length
           IN  /\ fed <= L
               /\ fed % 50 = 0 \/ fed = L
               /\ payload = [i \in 1..fed |-> data[i]]
               /\ (last.op = "onCode02" /\ last.res = "sent")
                    => LET position == last.out[1].position
                           size == Len(last.out[1].msgpart)
                       IN  /\ position % 50 = 0
                           /\ size = Min(50, L - position)
                           /\ fed = position + size
                           /\ L = 120 => <<position, size>> \in
                                            {<<0, 50>>, <<50, 50>>, <<100, 20>>}

\* the envelope of 120 characters has arrived with the chunk of 20 at 100
C17_Witness ==
    /\ last.op = "onCode02"
    /\ last.res = "sent"
    /\ last.out[1].position = 100
    /\ Len(last.out[1].msgpart) = 20
    /\ fed = 120
    /\ 0 \in DOMAIN irStore
    /\ payload = irStore[0].data

\* ------------------------------------------------------------ length prefix
\* what the handler copies of a chunk when the first byte is dropped under `strip`
CopiedInto(entry, chunk, strip) ==
    LET used == IF strip THEN Tail(chunk) ELSE chunk
        n == Min(Len(used), Len(entry.buf) - entry.position)
    IN  [entry EXCEPT !.position = entry.position + n,
                      !.buf = [i \in 1..Len(entry.buf) |->
                                  IF i > entry.position /\ i <= entry.position + n
                                  THEN used[i - entry.position] ELSE entry.buf[i]]]

\* C18 (as the code has it): the chunk handler drops the first byte of a chunk
\* exactly when the chunk has more than one byte, the first byte is its length
\* minus one and that is at most 56; the buffer receives the chunk after this step
C18_PrefixOfLongerChunk ==
    [][FeedChunk
       => irStore'[0] =
            CopiedInto(irStore[0], SplitChunk,
                       /\ Len(SplitChunk) > 1
                       /\ SplitChunk[1] = Len(SplitChunk) - 1
                       /\ SplitChunk[1] <= 56)]_vars

\* C18 (as stated): the chunk handler drops the first byte of a chunk exactly when
\* that byte is the chunk's length minus one and at most 56
C18_PrefixOfAnyChunk ==
    [][FeedChunk
       => irStore'[0] =
            CopiedInto(irStore[0], SplitChunk,
                       /\ SplitChunk[1] = Len(SplitChunk) - 1
                       /\ SplitChunk[1] <= 56)]_vars

\* of the chunks <<1, 0>> and <<0>> the first lost its first byte and the second,
\* a single byte 0, was copied whole
C18_Witness ==
    /\ 0 \in DOMAIN irStore
    /\ last.op \in {"onCode03", "onCode03Bound"}
    /\ payload = <<1, 0, 0>>
    /\ chunkLimit = 2
    /\ fed = 3
    /\ irStore[0].position = 2

\* ------------------------------------------------------------ the end of initiateIRSend
\* C19: initiateIRSend resolves only for a session that is no longer in the store
C19_SuccessAfterDone ==
    [][\A task \in BagToSet(tasks) :
            (task.pc = "open" /\ resumeInitiateIRSend(task, TRUE))
            => task.seq \notin DOMAIN irStore']_vars

\* an Open is sent in this step
SendsOpen == last'.out # <<>> /\ last'.out[1].t = "Code00"

C22_SessionEventuallyRemoved ==
    \A seq \in Seqs : (seq \in DOMAIN irStore) ~> (seq \notin DOMAIN irStore)


\* ------------------------------------------------------------ other sessions
\* C23: a step of a handler for sequence s (an event of the peer, a call of the
\* user or the continuation of either, also a failed one) leaves every session open
\* under another sequence in the store and as it was
C23_OtherSessionsUntouched ==
    [][\A seq \in DOMAIN irStore :
            seq # last'.seq
            => /\ seq \in DOMAIN irStore'
               /\ irStore'[seq] = irStore[seq]]_vars

\* a session was removed while a Receive session with bytes in its buffer is open
\* under another sequence
C23_Witness ==
    /\ last.op \in {"resumeOnCode04", "resumeOnCode05", "resumeOnCode05Bound", "onCode05"}
    /\ last.seq \notin DOMAIN irStore
    /\ \E seq \in DOMAIN irStore :
            /\ seq # last.seq
            /\ IsRecv(irStore[seq])
            /\ irStore[seq].position > 0


\* ------------------------------------------------------------ checksum of a chunk
\* a chunk carries its data behind a length byte
HasLengthByte(msgpart) ==
    /\ Len(msgpart) > 1
    /\ msgpart[1] = Len(msgpart) - 1
    /\ msgpart[1] <= 56

\* the byte sum modulo 256 of the data a chunk carries
DataSum(msgpart) ==
    SumSeq(IF HasLengthByte(msgpart) THEN Tail(msgpart) ELSE msgpart) % 256

\* C24: a chunk for an open Receive session is taken in the same way whether its
\* declared checksum is the byte sum of its data or not: the data is copied at the
\* cursor, the cursor moves on, and the next request or the Complete is sent
C24_ChecksumNotEnforced ==
    [][\A seq \in DOMAIN irStore : \A position \in ChunkOffsets(seq) :
       \A msgpart \in ChunkInputs(seq, position) : \A msgpartcrc \in ChunkCrcs(msgpart) :
            ( /\ IsRecv(irStore[seq])
              /\ last'.arg = msgpartcrc
              /\ \/ onCode03(seq, position, msgpart, msgpartcrc)
                 \/ onCode03Bound(seq, position, msgpart, msgpartcrc) )
            => LET entry == CopiedInto(irStore[seq], msgpart, HasLengthByte(msgpart))
               IN  /\ irStore' = [irStore EXCEPT ![seq] = entry]
                   /\ last'.out = <<IF entry.position < entry.length
                                    THEN Code02(seq, entry.position, 56)
                                    ELSE Code04(seq)>>]_vars

\* the first 56 bytes of a capture of 95 came with a checksum that is off by one,
\* were copied, and the next chunk was asked for
C24_Witness ==
    /\ last.op \in {"onCode03", "onCode03Bound"}
    /\ last.seq \in DOMAIN irStore
    /\ irStore[last.seq].length = 95
    /\ irStore[last.seq].position = 56
    /\ irStore[last.seq].buf = PeerChunk(0, 56) \o BufferAlloc(39)
    /\ last.arg = (DataSum(PeerChunk(0, 56)) + 1) % 256
    /\ last.out = <<Code02(last.seq, 56, 56)>>


\* ------------------------------------------------------------ sequence numbers of blasts
\* the step takes a sequence number
Allocates == currentSeq' # currentSeq

\* C25: every sequence number initiateIRSend takes is in 0..65535 and is the
\* counter modulo 65536; the number to be taken next is then the one taken plus 1
\* modulo 65536, so 0 follows 65535; and a blast whose Code00 send fails leaves the
\* counter where it is: its number is used up
C25_SequenceWraps ==
    [][/\ Allocates
            => /\ last'.seq \in 0..65535
               /\ last'.seq = currentSeq % 65536
               /\ last'.seq \in DOMAIN irStore'
               /\ currentSeq' % 65536 = (last'.seq + 1) % 65536
               /\ last'.seq = 65535 => currentSeq' % 65536 = 0
       /\ \A task \in BagToSet(tasks) :
            (task.pc = "open" /\ resumeInitiateIRSend(task, FALSE))
            => /\ currentSeq' = currentSeq
               /\ currentSeq' % 65536 # task.seq]_vars

\* the blast that took 65535 has failed after the next blast took 0
C25_Witness ==
    /\ last.op = "resumeInitiateIRSend"
    /\ last.res = "throw"
    /\ last.seq = 65535
    /\ 0 \in DOMAIN irStore
    /\ IsSend(irStore[0])
    /\ currentSeq % 65536 = 1


\* ------------------------------------------------------------ the two checksums
\* the sum of the bytes of b, from its end
RECURSIVE ByteSum(_)
ByteSum(b) == IF Len(b) = 0 THEN 0 ELSE b[Len(b)] + ByteSum(SubSeq(b, 1, Len(b) - 1))

\* C26: for the byte string b, calcCrc and calcArrayCrc give the sum of the bytes
\* modulo 256, a number in 0..255, and calcStringCrc of the string whose character
\* codes are the bytes of b gives the same number
C26_ChecksumsAgree ==
    last.op \in {"calcCrc", "calcArrayCrc", "calcStringCrc"}
    => /\ last.arg \in 0..255
       /\ last.arg = ByteSum(payload) % 256

\* the bytes 255, 255, 2 add up to 512 and the text checksum is 0
C26_Witness ==
    /\ last.op = "calcStringCrc"
    /\ payload = <<255, 255, 2>>
    /\ last.arg = 0


\* ------------------------------------------------------------ CompleteAck after CompleteAck
\* a handler of a Code05 for seq is suspended on its way to the delete
FinalizePending(seq) ==
    \E task \in BagToSet(tasks) :
        task.op \in {"onCode05", "onCode05Bound"} /\ task.seq = seq

\* C27: a Code05 for a Receive session that is complete, with no handler of an
\* earlier Code05 for it under way, removes the session or starts the handler that
\* will, whatever Code05 events came before
C27_CompleteAckFinalizes ==
    [][\A seq \in DOMAIN irStore :
            ( /\ IsRecv(irStore[seq])
              /\ irStore[seq].position = irStore[seq].length
              /\ ~FinalizePending(seq)
              /\ onCode05(seq) \/ onCode05Bound(seq) )
            => \/ seq \notin DOMAIN irStore'
               \/ FinalizePending(seq)']_vars


\* ------------------------------------------------------------ CompleteAck before the end
\* C28: a Code05 makes a handler report a payload (to the settings or to the
\* trigger card) only for a Receive session whose position has reached its length
C28_ReportOnlyWhenComplete ==
    [][\A seq \in DOMAIN irStore :
            ( /\ IsRecv(irStore[seq])
              /\ onCode05(seq) \/ onCode05Bound(seq)
              /\ last'.out # <<>>
              /\ last'.out[1].t \in {"setSettings", "trigger"} )
            => irStore[seq].position = irStore[seq].length]_vars


\* ------------------------------------------------------------ Complete for no Send session
\* C29: a Complete for a sequence that is not an open Send session sends no Code05
\* and leaves the store as it is, and no Receive session is removed by the handler
\* of a Complete
C29_StrayCompleteIgnored ==
    [][/\ \A seq \in Seqs : \A zero0 \in {0, 1} :
            ( /\ seq \notin DOMAIN irStore \/ ~IsSend(irStore[seq])
              /\ onCode04(seq, zero0) )
            => /\ last'.out = <<>>
               /\ irStore' = irStore
       /\ \A task \in BagToSet(tasks) : \A ok \in BOOLEAN :
            ( /\ task.seq \in DOMAIN irStore
              /\ IsRecv(irStore[task.seq])
              /\ resumeOnCode04(task, ok) )
            => irStore' = irStore]_vars


\* ------------------------------------------------------------ chunks after the last one
\* C30: a chunk for a Receive session whose position has reached its length (the
\* Code04 was sent with the chunk that completed it) is answered with nothing: no
\* second Code04 and no Code02
C30_OneCompletePerSession ==
    [][\A seq \in DOMAIN irStore : \A position \in ChunkOffsets(seq) :
       \A msgpart \in ChunkInputs(seq, position) :
            ( /\ IsRecv(irStore[seq])
              /\ irStore[seq].position = irStore[seq].length
              /\ \/ onCode03(seq, position, msgpart, calcCrc(msgpart))
                 \/ onCode03Bound(seq, position, msgpart, calcCrc(msgpart)) )
            => last'.out = <<>>]_vars


\* ------------------------------------------------------------ events for the other direction
\* C31: a chunk or a Code05 that names an open Send session, and a chunk request
\* that names an open Receive session, end without an uncaught error and leave
\* that session as it is
C31_WrongDirectionHandled ==
    [][/\ \A seq \in DOMAIN irStore : \A msgpart \in {NextChunk(seq), <<>>} :
            ( /\ IsSend(irStore[seq])
              /\ \/ onCode03(seq, 0, msgpart, calcCrc(msgpart))
                 \/ onCode03Bound(seq, 0, msgpart, calcCrc(msgpart))
                 \/ onCode05(seq)
                 \/ onCode05Bound(seq) )
            => /\ last'.res # "throw"
               /\ seq \in DOMAIN irStore'
               /\ irStore'[seq] = irStore[seq]
       /\ \A seq \in DOMAIN irStore :
            (IsRecv(irStore[seq]) /\ onCode02(seq, 0, RECV_MAXLEN))
            => /\ last'.res # "throw"
               /\ seq \in DOMAIN irStore'
               /\ irStore'[seq] = irStore[seq]]_vars


\* ------------------------------------------------------------ requests before the acknowledgment
\* C32 (as the code has it): a chunk request for an open Send session is answered
\* with a Code03 of that sequence whether the peer has acknowledged the Open or
\* not, and the acknowledgment changes neither the store nor the suspended handlers
\* and sends nothing
C32_ServedWithoutAck ==
    [][/\ \A seq \in DOMAIN irStore : \A position \in RequestOffsets :
          \A maxlen \in RequestMaxlens :
            ( /\ IsSend(irStore[seq])
              /\ last'.seq = seq /\ last'.arg = maxlen
              /\ onCode02(seq, position, maxlen) )
            => /\ Len(last'.out) = 1
               /\ last'.out[1].t = "Code03"
               /\ last'.out[1].seq = seq
               /\ last'.out[1].position = position
       /\ AckFromPeer
            => /\ irStore' = irStore
               /\ tasks' = tasks
               /\ last'.out = <<>>]_vars

\* C32 (as stated): a Code03 is sent only for a session whose Open the peer has
\* acknowledged
C32_ServedOnlyAfterAck ==
    [][\A seq \in Seqs : \A position \in RequestOffsets : \A maxlen \in RequestMaxlens :
            ( /\ last'.seq = seq /\ last'.arg = maxlen
              /\ onCode02(seq, position, maxlen)
              /\ last'.out # <<>> )
            => seq \in acked]_vars

\* a chunk was sent for a session that is not acknowledged and whose Code00 send
\* has not settled yet
C32_Witness ==
    /\ last.op = "onCode02"
    /\ last.res = "sent"
    /\ last.seq \notin acked
    /\ \E task \in BagToSet(tasks) :
            task.op = "initiateIRSend" /\ task.pc = "open" /\ task.seq = last.seq


\* ------------------------------------------------------------ a chunk past the end
\* C33: when the data of a chunk (the chunk without its length byte) does not fit
\* behind the position, the bytes that fit are copied at the position, the bytes
\* before it stay, the position becomes the buffer's length, and the session stays
\* and is answered with the Code04
C33_OverflowTruncated ==
    [][\A seq \in DOMAIN irStore : \A position \in ChunkOffsets(seq) :
       \A msgpart \in ChunkInputsAny(seq, position) :
            LET data == IF HasLengthByte(msgpart) THEN Tail(msgpart) ELSE msgpart
                cursor == irStore[seq].position
                size == Len(irStore[seq].buf)
            IN  ( /\ IsRecv(irStore[seq])
                  /\ cursor + Len(data) > size
                  /\ last'.arg = calcCrc(msgpart)
                  /\ \/ onCode03(seq, position, msgpart, calcCrc(msgpart))
                     \/ onCode03Bound(seq, position, msgpart, calcCrc(msgpart)) )
                => /\ seq \in DOMAIN irStore'
                   /\ Len(irStore'[seq].buf) = size
                   /\ \A i \in 1..cursor : irStore'[seq].buf[i] = irStore[seq].buf[i]
                   /\ \A i \in (cursor + 1)..size : irStore'[seq].buf[i] = data[i - cursor]
                   /\ irStore'[seq].position = size
                   /\ last'.out = <<Code04(seq)>>]_vars

\* a chunk of 60 bytes came for a capture of 40: the buffer holds its first 40
\* bytes and the Code04 was sent
C33_Witness ==
    /\ last.op \in {"onCode03", "onCode03Bound"}
    /\ last.seq \in DOMAIN irStore
    /\ last.arg = SumSeq(PeerChunk(0, 60)) % 256
    /\ irStore[last.seq].length = 40
    /\ irStore[last.seq].position = 40
    /\ irStore[last.seq].buf = PeerChunk(0, 40)
    /\ last.out = <<Code04(last.seq)>>


\* ------------------------------------------------------------ a failed Open
\* C34: when the Code00 send of initiateIRSend fails, the call throws, sends
\* nothing more and its session is gone from the store; and a chunk request for a
\* sequence that is not in the store is answered with nothing
C34_FailedOpenRemoved ==
    [][/\ \A task \in BagToSet(tasks) :
            (task.pc = "open" /\ resumeInitiateIRSend(task, FALSE))
            => /\ task.seq \notin DOMAIN irStore'
               /\ \A seq \in DOMAIN irStore \ {task.seq} :
                    seq \in DOMAIN irStore' /\ irStore'[seq] = irStore[seq]
               /\ last'.res = "throw"
               /\ last'.out = <<>>
       /\ \A seq \in Seqs : \A position \in RequestOffsets : \A maxlen \in RequestMaxlens :
            ( /\ seq \notin DOMAIN irStore
              /\ last'.seq = seq /\ last'.arg = maxlen
              /\ onCode02(seq, position, maxlen) )
            => last'.out = <<>>]_vars

\* a chunk request found no session for a sequence number that a blast had taken:
\* the Code00 send of that blast had failed
C34_Witness ==
    /\ last.op = "onCode02"
    /\ last.res = "noentry"
    /\ last.out = <<>>
    /\ last.seq < currentSeq
    /\ ~\E task \in BagToSet(tasks) : task.seq = last.seq


\* ------------------------------------------------------------ unknown sequence
\* C35: a chunk request or a chunk for a sequence that is not in the store sends
\* nothing, suspends no handler and leaves the store as it is
C35_UnknownSequenceIgnored ==
    [][/\ \A seq \in Seqs : \A maxlen \in RequestMaxlens :
            ( /\ seq \notin DOMAIN irStore
              /\ last'.seq = seq /\ last'.arg = maxlen
              /\ onCode02(seq, 0, maxlen) )
            => /\ last'.out = <<>>
               /\ irStore' = irStore
               /\ tasks' = tasks
       /\ \A seq \in Seqs : \A position \in ChunkOffsets(seq) :
            ( /\ seq \notin DOMAIN irStore
              /\ last'.seq = seq
              /\ \/ onCode03(seq, position, NextChunk(seq), calcCrc(NextChunk(seq)))
                 \/ onCode03Bound(seq, position, NextChunk(seq), calcCrc(NextChunk(seq))) )
            => /\ last'.out = <<>>
               /\ irStore' = irStore
               /\ tasks' = tasks]_vars

\* a chunk for an unknown sequence was dropped while a Receive session with bytes
\* in its buffer is open under another one
C35_Witness ==
    /\ last.op \in {"onCode03", "onCode03Bound"}
    /\ last.res = "noentry"
    /\ last.seq \notin DOMAIN irStore
    /\ \E seq \in DOMAIN irStore : IsRecv(irStore[seq]) /\ irStore[seq].position > 0


\* ------------------------------------------------------------ queued-settings sensors
\* const dataPoints of the two drivers
dataPoints(sensor, key) ==
    IF sensor = "motion"
    THEN CASE key = "occupancy" -> 1
           [] key = "battery" -> 4
           [] key = "sensitivity" -> 9
           [] key = "keep_time" -> 10
           [] key = "illuminance" -> 12
           [] key = "illuminance_alt" -> 101
           [] key = "illuminance_interval" -> 102
           [] key = "illuminance_config" -> 103
    ELSE CASE key = "vibration" -> 1
           [] key = "contact" -> 101
           [] key = "battery" -> 4
           [] key = "sensitivity" -> 6

\* the reports on which a queued setting is written
WakeReports(sensor) == IF sensor = "motion" THEN {4, 12, 101} ELSE {dataPoints(sensor, "battery")}

\* the reports of a sensor
Reports(sensor) == WakeReports(sensor) \cup {1}

\* the values of a setting
SettingValues == {1, 2}

\* { dp, value, key }
QueuedSetting(sensor, key, val) == [dp |-> dataPoints(sensor, key), value |-> val, key |-> key]

\* this.pendingSettings.find(s => s.key === key)
Queued(sensor, key) ==
    \E i \in 1..Len(pendingSettings[sensor]) : pendingSettings[sensor][i].key = key

\* the write of a queued setting: writeData32 for the numeric data points of the
\* motion sensor and for every data point of the vibration sensor, else writeEnum
WriteOf(sensor, setting) ==
    [cmd |-> IF sensor = "vibration" \/ setting.dp >= 102 THEN "writeData32" ELSE "writeEnum",
     dp |-> setting.dp, value |-> setting.value]

\* array.shift()
Shift(array) == IF array = <<>> THEN <<>> ELSE Tail(array)

\* onSettings for one changed key that has a data point
onSettings(sensor, key, val) ==
    /\ newSettings' = [newSettings EXCEPT ![sensor][key] = val]
    /\ pendingSettings' =
         IF Queued(sensor, key) THEN pendingSettings
         ELSE [pendingSettings EXCEPT ![sensor] = Append(@, QueuedSetting(sensor, key, val))]
    /\ last' = StepArg("onSettings", NoSeq, val,
                       IF Queued(sensor, key) THEN "queued already" ELSE "queued", <<>>)
    /\ UNCHANGED <<blaster, soil, knob, now, settingWriteInProgress, writing, issued>>

\* handleDataPoint up to the write it starts; the switch on the data point sets
\* capabilities only
handleDataPoint(sensor, dp) ==
    /\ UNCHANGED <<blaster, soil, knob, now, pendingSettings, newSettings>>
    /\ IF /\ pendingSettings[sensor] # <<>>
          /\ dp \in WakeReports(sensor)
          /\ sensor = "vibration" => ~settingWriteInProgress
       THEN LET setting == pendingSettings[sensor][1]
            IN  /\ writing[sensor] < MaxTasks
                /\ writing' = [writing EXCEPT ![sensor] = @ + 1]
                /\ settingWriteInProgress' =
                     IF sensor = "vibration" THEN TRUE ELSE settingWriteInProgress
                /\ issued' = [issued EXCEPT ![sensor][setting.key] = setting.value]
                /\ last' = StepArg("handleDataPoint", NoSeq, dp, "write",
                                   <<WriteOf(sensor, setting)>>)
       ELSE /\ last' = StepArg("handleDataPoint", NoSeq, dp, "report", <<>>)
            /\ UNCHANGED <<writing, settingWriteInProgress, issued>>

\* the then or the catch of a write: both shift the queue
writeSettled(sensor, ok) ==
    /\ writing[sensor] > 0
    /\ writing' = [writing EXCEPT ![sensor] = @ - 1]
    /\ pendingSettings' = [pendingSettings EXCEPT ![sensor] = Shift(@)]
    /\ settingWriteInProgress' =
         IF sensor = "vibration" THEN FALSE ELSE settingWriteInProgress
    /\ last' = StepArg("writeSettled", NoSeq, 0, IF ok THEN "then" ELSE "catch", <<>>)
    /\ UNCHANGED <<blaster, soil, knob, now, issued, newSettings>>

NextSensors ==
    \/ \E sensor \in Sensors : \E key \in SettingKeys(sensor), val \in SettingValues :
            onSettings(sensor, key, val)
    \/ \E sensor \in Sensors : \E dp \in Reports(sensor) : handleDataPoint(sensor, dp)
    \/ \E sensor \in Sensors, ok \in BOOLEAN : writeSettled(sensor, ok)

SpecSensors == InitAll /\ [][NextSensors]_vars

\* C36: a setting of the motion sensor leaves the queue only after a write of it was
\* issued
C36_RemovedOnlyWhenWritten ==
    [][\A ok \in BOOLEAN :
         (writeSettled("motion", ok) /\ pendingSettings["motion"] # <<>>)
         => LET setting == pendingSettings["motion"][1]
            IN  issued["motion"][setting.key] = setting.value]_vars

\* C37: every write of a queued setting carries the value of the last change of its key
C37_NewestValueWritten ==
    [][\A sensor \in Sensors : \A dp \in WakeReports(sensor) :
         (handleDataPoint(sensor, dp) /\ last'.res = "write")
         => LET setting == pendingSettings[sensor][1]
            IN  last'.out[1].value = newSettings[sensor][setting.key]]_vars


\* ------------------------------------------------------------ time
\* time passes by d up to the horizon, and never beyond the time an armed timeout is due
Tick(d, horizon) ==
    /\ now + d <= horizon
    /\ singlePressTimeout = NoTimeout \/ now + d <= singlePressTimeout
    /\ now' = now + d
    /\ last' = StepArg("tick", NoSeq, d, "", <<>>)
    /\ UNCHANGED <<blaster, sensors, soil, knob>>

\* ------------------------------------------------------------ soil sensor
\* an onDeviceAwake run suspended at pc; inside applyDeviceSettings, write is the
\* write awaited and value the value read from the settings when the apply began
Awake(pc, write, value) == [pc |-> pc, write |-> write, value |-> value]

\* onSettings of a sleepy device, with the settings saved as the handler returns
onSettingsSleepy(val) ==
    /\ pendingSettingsApply' = TRUE
    /\ soilSettings' = val
    /\ last' = StepArg("onSettingsSleepy", NoSeq, val, "pending", <<>>)
    /\ UNCHANGED <<blaster, sensors, knob, now, lastWakeHandledAt, soilDevice, awake>>

\* onDeviceAwake up to await this.setAvailable()
onDeviceAwake ==
    /\ UNCHANGED <<blaster, sensors, knob, now, pendingSettingsApply, soilSettings, soilDevice>>
    /\ IF now - lastWakeHandledAt < DEBOUNCE_MS
       THEN /\ last' = StepArg("onDeviceAwake", NoSeq, now, "debounced", <<>>)
            /\ UNCHANGED <<lastWakeHandledAt, awake>>
       ELSE /\ BagCardinality(awake) < MaxTasks
            /\ lastWakeHandledAt' = now
            /\ awake' = awake (+) SetToBag({Awake("setAvailable", 0, 0)})
            /\ last' = StepArg("onDeviceAwake", NoSeq, now, "await", <<>>)

\* what follows applyDeviceSettings in onDeviceAwake: the flag is cleared and the
\* battery is read
AppliedTo(run, res) ==
    /\ pendingSettingsApply' = FALSE
    /\ awake' = (awake (-) SetToBag({run})) (+) SetToBag({Awake("readBattery", 0, 0)})
    /\ last' = StepArg("resumeOnDeviceAwake", NoSeq, run.write, res, <<>>)

\* an await of onDeviceAwake settles: setAvailable, one of the writes of
\* applyDeviceSettings (the first enforces Celsius, the others carry settings), or
\* readBattery
resumeOnDeviceAwake(run, ok) ==
    /\ run \in BagToSet(awake)
    /\ UNCHANGED <<blaster, sensors, knob, now, lastWakeHandledAt, soilSettings>>
    /\ CASE run.pc = "setAvailable" ->
              /\ UNCHANGED <<pendingSettingsApply, soilDevice>>
              /\ awake' = (awake (-) SetToBag({run})) (+)
                          SetToBag({IF pendingSettingsApply
                                    THEN Awake("write", 1, soilSettings)
                                    ELSE Awake("readBattery", 0, 0)})
              /\ last' = StepArg("resumeOnDeviceAwake", NoSeq, 0,
                                 IF pendingSettingsApply THEN "apply" ELSE "no apply", <<>>)
         [] run.pc = "write" ->
              IF ~ok
              THEN UNCHANGED soilDevice /\ AppliedTo(run, "catch")
              ELSE /\ soilDevice' = [soilDevice EXCEPT ![run.write] =
                                        IF run.write = 1 THEN 0 ELSE run.value]
                   /\ IF run.write < APPLY_WRITES
                      THEN /\ awake' = (awake (-) SetToBag({run})) (+)
                                       SetToBag({Awake("write", run.write + 1, run.value)})
                           /\ last' = StepArg("resumeOnDeviceAwake", NoSeq, run.write,
                                              "written", <<>>)
                           /\ UNCHANGED pendingSettingsApply
                      ELSE AppliedTo(run, "applied")
         [] run.pc = "readBattery" ->
              /\ UNCHANGED <<pendingSettingsApply, soilDevice>>
              /\ awake' = awake (-) SetToBag({run})
              /\ last' = StepArg("resumeOnDeviceAwake", NoSeq, 0, "done", <<>>)

NextSoil ==
    \/ \E val \in SettingValues : onSettingsSleepy(val)
    \/ onDeviceAwake
    \/ \E run \in BagToSet(awake), ok \in BOOLEAN : resumeOnDeviceAwake(run, ok)
    \/ Tick(DEBOUNCE_MS, DOUBLE_CLICK_WINDOW + 3 * DEBOUNCE_MS)

SpecSoil == InitAll /\ [][NextSoil]_vars

\* C38: when pendingSettingsApply is cleared, every setting write of
\* applyDeviceSettings has delivered the value the settings hold
C38_ClearedOnlyWhenApplied ==
    [][(pendingSettingsApply /\ ~pendingSettingsApply')
       => \A write \in 2..APPLY_WRITES : soilDevice'[write] = soilSettings']_vars


\* ------------------------------------------------------------ smart knob
\* a timeout callback that is due runs before the next command is handled
TimeoutDue == singlePressTimeout # NoTimeout /\ now >= singlePressTimeout

\* _handleToggle
handleToggle ==
    /\ ~TimeoutDue
    /\ UNCHANGED <<blaster, sensors, soil, now>>
    /\ LET timeSinceLastPress == now - lastPressTime
       IN  IF timeSinceLastPress < DOUBLE_CLICK_WINDOW /\ timeSinceLastPress > 50
           THEN /\ lastPressTime' = 0
                /\ UNCHANGED singlePressTimeout
                /\ last' = StepArg("handleToggle", NoSeq, now, "double",
                                   <<"double_press", "toggle">>)
           ELSE /\ singlePressTimeout' = now + DOUBLE_CLICK_WINDOW
                /\ lastPressTime' = now
                /\ last' = StepArg("handleToggle", NoSeq, now, "single", <<"toggle">>)

\* the callback of singlePressTimeout
singlePressFires ==
    /\ TimeoutDue
    /\ singlePressTimeout' = NoTimeout
    /\ last' = StepArg("singlePressFires", NoSeq, now, "fired", <<"single_press">>)
    /\ UNCHANGED <<blaster, sensors, soil, now, lastPressTime>>

\* the gaps between two commands: inside the bounce time, inside the double-click
\* window, and the window itself
ToggleGaps == {25, 100, DOUBLE_CLICK_WINDOW}

NextKnob ==
    \/ handleToggle
    \/ singlePressFires
    \/ \E d \in ToggleGaps :
          Tick(d, DOUBLE_CLICK_WINDOW + DEBOUNCE_MS + 3 * DOUBLE_CLICK_WINDOW)

SpecKnob == InitAll /\ [][NextKnob]_vars

\* C39: single_press fires only for a press that no double press has taken: the
\* press that armed the timeout is still the last press
C39_NoSinglePressAfterDouble ==
    [][singlePressFires
       => lastPressTime = singlePressTimeout - DOUBLE_CLICK_WINDOW]_vars


\* ------------------------------------------------------------ compare IR codes
\* a base64 text is the sequence of its characters: 0..63 for the digits, 64 for the
\* '=' pad (as Base64 writes them) and Whitespace for a blank
Whitespace == 65

\* .replace(/\s+/g, '')
RemoveWhitespace(text) == SelectSeq(text, LAMBDA c : c # Whitespace)

\* Buffer.from(text, 'base64') for a text whose pads, if any, are at its end: every
\* four digits give three bytes, two or three digits left over give one or two
Base64Decode(text) ==
    LET digits == SelectSeq(text, LAMBDA c : c < 64)
        D(j) == IF j <= Len(digits) THEN digits[j] ELSE 0
        Byte(k) ==
            LET g == (k - 1) \div 3
                r == (k - 1) % 3
            IN  CASE r = 0 -> D(4 * g + 1) * 4 + (D(4 * g + 2) \div 16)
                  [] r = 1 -> (D(4 * g + 2) % 16) * 16 + (D(4 * g + 3) \div 4)
                  [] OTHER -> (D(4 * g + 3) % 4) * 64 + D(4 * g + 4)
    IN  [k \in 1..((Len(digits) * 6) \div 8) |-> Byte(k)]

\* Math.round((same / minLen) * 1000), the similarity in thousandths (halves round
\* up; the lengths compared here give no quotient next to a half)
Similarity(same, minLen) == (2000 * same + minLen) \div (2 * minLen)

\* _compareIrCodes(codeA, codeB)
compareIrCodes(codeA, codeB) ==
    LET a == RemoveWhitespace(codeA)
        b == RemoveWhitespace(codeB)
        bufA == Base64Decode(a)
        bufB == Base64Decode(b)
        lenA == Len(bufA)
        lenB == Len(bufB)
        minLen == Min(lenA, lenB)
        same == Cardinality({i \in 1..minLen : bufA[i] = bufB[i]})
        similarity == IF minLen = 0 THEN 0 ELSE Similarity(same, minLen)
    IN  IF a = <<>> \/ b = <<>>
        THEN [equal |-> FALSE, similarity |-> 0, lenA |-> 0, lenB |-> 0,
              reason |-> "empty_code"]
        ELSE IF lenA = 0 \/ lenB = 0
        THEN [equal |-> FALSE, similarity |-> 0, lenA |-> lenA, lenB |-> lenB,
              reason |-> "invalid_base64"]
        ELSE [equal |-> lenA = lenB /\ similarity = 1000, similarity |-> similarity,
              lenA |-> lenA, lenB |-> lenB, reason |-> ""]

\* the run listener of the compare_ir_codes condition card
compare_ir_codes ==
    /\ last' = StepArg("compare_ir_codes", NoSeq, 0, "ok",
                       <<compareIrCodes(codes[1], codes[2])>>)
    /\ UNCHANGED <<blaster, sensors, soil, knob, now>>

\* the byte strings behind the codes compared: short ones, and two long ones that
\* differ in their last byte
CompareBuffers ==
    UNION {[1..n -> {0, 1}] : n \in 1..2}
    \cup {<<0, 0, 0>>, <<0, 0, 1>>}
    \cup {[i \in 1..LongCode |-> 0], [i \in 1..LongCode |-> IF i = LongCode THEN 1 ELSE 0]}

\* the codes compared: base64 texts, the same after a blank, and texts without bytes
IrCodes ==
    {Base64(buf) : buf \in CompareBuffers}
    \cup {<<Whitespace>> \o Base64(buf) : buf \in CompareBuffers}
    \cup {<<>>, <<Whitespace>>, <<16>>}

InitCompare ==
    /\ InitDevice
    /\ Idle
    /\ hasCluster /\ hasControl /\ hasTrigger
    /\ codes \in IrCodes \X IrCodes

NextCompare == compare_ir_codes

SpecCompare == InitCompare /\ [][NextCompare]_vars

\* C40: the codes are reported equal only when they decode to the same bytes, and
\* never when one of them is empty or decodes to no byte
C40_EqualOnlyWhenIdentical ==
    last.op = "compare_ir_codes"
    => LET bufA == Base64Decode(RemoveWhitespace(codes[1]))
           bufB == Base64Decode(RemoveWhitespace(codes[2]))
       IN  /\ last.out[1].equal => bufA = bufB
           /\ (bufA = <<>> \/ bufB = <<>>) => ~last.out[1].equal

====
